---- MODULE Spec2Model ----
(***************************************************************************)
(* Model of the JSON diagnostic parsing engine (json-parser.ts), the tree  *)
(* synthesizer (tree-generator.ts) and the application state that drives   *)
(* them (app-state.ts, +page.svelte).                                      *)
(*                                                                         *)
(* A text is a sequence of one-character strings.  Offsets, indices and    *)
(* the arguments of substring/indexOf are 0-based as in the source; the    *)
(* helpers below translate to TLA+'s 1-based sequences.                    *)
(***************************************************************************)
EXTENDS Integers, Sequences, FiniteSets, TLC

\* ------------------------------------------------------------------------
\* Bounds of the model
\* ------------------------------------------------------------------------
\* number of lines of the texts built from LineShapes
MaxLines == 2
\* number of repetitions of a line in the long texts (reaches past maxErrors)
MaxRepeat == 16
\* size of the space generateId() draws from
MaxId == 2

\* the history cap, standing for the 50 of app-state.ts
MaxHistory == 3

\* ------------------------------------------------------------------------
\* Characters and JavaScript string primitives
\* ------------------------------------------------------------------------
Digits == {"0", "1", "2", "3", "4", "5", "6", "7", "8", "9"}

LowerLetters ==
  {"a", "b", "c", "d", "e", "f", "g", "h", "i", "j", "k", "l", "m",
   "n", "o", "p", "q", "r", "s", "t", "u", "v", "w", "x", "y", "z"}

UpperLetters ==
  {"A", "B", "C", "D", "E", "F", "G", "H", "I", "J", "K", "L", "M",
   "N", "O", "P", "Q", "R", "S", "T", "U", "V", "W", "X", "Y", "Z"}

\* [a-zA-Z] (the Hangul range of the source's classes is outside the alphabet)
Letters == LowerLetters \cup UpperLetters

\* \s of a regular expression and the characters String.prototype.trim strips
WhiteSpace == {" ", "\t", "\n", "\r"}

Min(a, b) == IF a < b THEN a ELSE b

Max(a, b) == IF a > b THEN a ELSE b

Minimum(S) == CHOOSE x \in S : \A y \in S : x <= y

\* s.substring(a, b)
substring(s, a, b) ==
  LET ca == Min(Max(a, 0), Len(s))
      cb == Min(Max(b, 0), Len(s))
  IN SubSeq(s, Min(ca, cb) + 1, Max(ca, cb))

\* s.substring(a)
substringFrom(s, a) == substring(s, a, Len(s))

RECURSIVE trimStart(_)
trimStart(s) ==
  IF s = <<>> \/ s[1] \notin WhiteSpace THEN s ELSE trimStart(Tail(s))

RECURSIVE trimEnd(_)
trimEnd(s) ==
  IF s = <<>> \/ s[Len(s)] \notin WhiteSpace THEN s
  ELSE trimEnd(SubSeq(s, 1, Len(s) - 1))

\* s.trim()
trim(s) == trimEnd(trimStart(s))

\* s.replace(/[chars]*$/, ''): the trailing run of characters of the class
RECURSIVE stripTrailing(_, _)
stripTrailing(s, chars) ==
  IF s = <<>> \/ s[Len(s)] \notin chars THEN s
  ELSE stripTrailing(SubSeq(s, 1, Len(s) - 1), chars)

\* sub occurs in s at 0-based offset i
occursAt(s, sub, i) ==
  /\ i >= 0
  /\ i + Len(sub) <= Len(s)
  /\ SubSeq(s, i + 1, i + Len(sub)) = sub

\* s.indexOf(sub, from)
indexOf(s, sub, from) ==
  LET f == Min(Max(from, 0), Len(s))
      hits == {i \in f..(Len(s) - Len(sub)) : occursAt(s, sub, i)}
  IN IF hits = {} THEN -1 ELSE Minimum(hits)

includes(s, sub) == indexOf(s, sub, 0) # -1

startsWith(s, sub) == occursAt(s, sub, 0)

endsWith(s, sub) == occursAt(s, sub, Len(s) - Len(sub))

\* s.split('\n')
RECURSIVE split(_)
splitAt(s, nl) ==
  IF nl = -1 THEN <<s>>
  ELSE <<substring(s, 0, nl)>> \o split(substringFrom(s, nl + 1))

split(s) == splitAt(s, indexOf(s, <<"\n">>, 0))

DigitChars == <<"0", "1", "2", "3", "4", "5", "6", "7", "8", "9">>

\* String(n) for a non-negative integer
RECURSIVE intToString(_)
intToString(n) ==
  IF n < 10 THEN <<DigitChars[n + 1]>>
  ELSE intToString(n \div 10) \o <<DigitChars[(n % 10) + 1]>>

digitValue(c) == CHOOSE v \in 0..9 : DigitChars[v + 1] = c

\* ------------------------------------------------------------------------
\* The native strict decoder, JSON.parse (ECMA-404 grammar)
\* ------------------------------------------------------------------------
\* Decoded values.  A number is m * 10^e with m not divisible by 10.
JNull == [type |-> "null"]

JBool(b) == [type |-> "boolean", b |-> b]

JNumber(neg, m, e) == [type |-> "number", neg |-> neg, m |-> m, e |-> e]

JString(s) == [type |-> "string", s |-> s]

JArray(items) == [type |-> "array", items |-> items]

JObject(keys, vals) == [type |-> "object", keys |-> keys, vals |-> vals]

\* a decoding step: the value and the 1-based index of the next character,
\* or the 0-based offset of the character the decoder stopped at
Ok(val, next) == [ok |-> TRUE, val |-> val, next |-> next]

Fail(at) == [ok |-> FALSE, at |-> at]

\* the offset reported for the character at 1-based index i (end of input
\* when i is past the text)
failAt(t, i) == Fail(Min(i - 1, Len(t)))

RECURSIVE skipWs(_, _)
skipWs(t, i) ==
  IF i <= Len(t) /\ t[i] \in WhiteSpace THEN skipWs(t, i + 1) ELSE i

RECURSIVE digitsEnd(_, _)
digitsEnd(t, i) ==
  IF i <= Len(t) /\ t[i] \in Digits THEN digitsEnd(t, i + 1) ELSE i

RECURSIVE digitsValue(_)
digitsValue(ds) ==
  IF ds = <<>> THEN 0
  ELSE 10 * digitsValue(SubSeq(ds, 1, Len(ds) - 1)) + digitValue(ds[Len(ds)])

RECURSIVE normalizeNumber(_, _, _)
normalizeNumber(neg, m, e) ==
  IF m = 0 THEN JNumber(neg, 0, 0)
  ELSE IF m % 10 = 0 THEN normalizeNumber(neg, m \div 10, e + 1)
  ELSE JNumber(neg, m, e)

\* number = [ "-" ] int [ frac ] [ exp ], read left to right
numberValue(neg, intDigits, fracDigits, exp) ==
  normalizeNumber(neg, digitsValue(intDigits \o fracDigits), exp - Len(fracDigits))

parseExponentDigits(t, neg, intDigits, fracDigits, expNeg, expStart, expEnd) ==
  IF expEnd = expStart THEN failAt(t, expStart)
  ELSE Ok(numberValue(neg, intDigits, fracDigits,
                      (IF expNeg THEN -1 ELSE 1)
                        * digitsValue(SubSeq(t, expStart, expEnd - 1))),
          expEnd)

parseExponentSign(t, neg, intDigits, fracDigits, hasSign, j) ==
  parseExponentDigits(t, neg, intDigits, fracDigits,
                      hasSign /\ t[j + 1] = "-",
                      IF hasSign THEN j + 2 ELSE j + 1,
                      digitsEnd(t, IF hasSign THEN j + 2 ELSE j + 1))

parseExponent(t, neg, intDigits, fracDigits, j) ==
  IF j <= Len(t) /\ t[j] \in {"e", "E"}
  THEN parseExponentSign(t, neg, intDigits, fracDigits,
                         j + 1 <= Len(t) /\ t[j + 1] \in {"+", "-"}, j)
  ELSE Ok(numberValue(neg, intDigits, fracDigits, 0), j)

parseFraction(t, neg, intDigits, hasFrac, intEnd, fracEnd) ==
  IF hasFrac /\ fracEnd = intEnd + 1 THEN failAt(t, fracEnd)
  ELSE parseExponent(t, neg, intDigits, SubSeq(t, intEnd + 1, fracEnd - 1), fracEnd)

parseInteger(t, neg, i1, intEnd) ==
  IF intEnd = i1 THEN failAt(t, i1)
  ELSE parseFraction(t, neg, SubSeq(t, i1, intEnd - 1),
                     intEnd <= Len(t) /\ t[intEnd] = ".",
                     intEnd,
                     IF intEnd <= Len(t) /\ t[intEnd] = "."
                     THEN digitsEnd(t, intEnd + 1) ELSE intEnd)

parseDigits(t, neg, i1) ==
  parseInteger(t, neg, i1,
               IF i1 <= Len(t) /\ t[i1] = "0" THEN i1 + 1 ELSE digitsEnd(t, i1))

parseNumber(t, i) == parseDigits(t, t[i] = "-", IF t[i] = "-" THEN i + 1 ELSE i)

\* characters that may not appear unescaped inside a string
ControlChars == {"\t", "\n", "\r"}

\* the two-character escapes; \uXXXX is outside the modelled alphabet
unescape(c) ==
  CASE c = "n" -> "\n"
    [] c = "t" -> "\t"
    [] c = "r" -> "\r"
    [] OTHER -> c

RECURSIVE scanString(_, _, _)
scanString(t, j, acc) ==
  IF j > Len(t) THEN Fail(Len(t))
  ELSE IF t[j] = "\"" THEN Ok(acc, j + 1)
  ELSE IF t[j] \in ControlChars THEN Fail(j - 1)
  ELSE IF t[j] = "\\"
    THEN IF j + 1 <= Len(t) /\ t[j + 1] \in {"\"", "\\", "/", "n", "t", "r"}
         THEN scanString(t, j + 2, Append(acc, unescape(t[j + 1])))
         ELSE failAt(t, j + 1)
  ELSE scanString(t, j + 1, Append(acc, t[j]))

parseString(t, s) == IF s.ok THEN Ok(JString(s.val), s.next) ELSE s

\* the literal names true, false and null
LiteralName(c) ==
  CASE c = "t" -> <<"t", "r", "u", "e">>
    [] c = "f" -> <<"f", "a", "l", "s", "e">>
    [] OTHER -> <<"n", "u", "l", "l">>

LiteralValue(c) ==
  CASE c = "t" -> JBool(TRUE)
    [] c = "f" -> JBool(FALSE)
    [] OTHER -> JNull

parseLiteral(t, i, name, val) ==
  LET bad == {k \in 1..Len(name) : i + k - 1 > Len(t) \/ t[i + k - 1] # name[k]}
  IN IF bad = {} THEN Ok(val, i + Len(name))
     ELSE failAt(t, i + Minimum(bad) - 1)

\* a canonical array index: such keys enumerate first, in ascending order
isArrayIndex(k) ==
  /\ k # <<>>
  /\ \A i \in 1..Len(k) : k[i] \in Digits
  /\ (k[1] = "0" => Len(k) = 1)

insertAt(seq, i, x) == SubSeq(seq, 1, i - 1) \o <<x>> \o SubSeq(seq, i, Len(seq))

\* CreateDataProperty on the object under construction: a repeated key keeps
\* its place and takes the later value
objectSet(o, k, v) ==
  LET same == {i \in 1..Len(o.keys) : o.keys[i] = k}
      after == {i \in 1..Len(o.keys) :
                  \/ ~isArrayIndex(o.keys[i])
                  \/ digitsValue(o.keys[i]) > digitsValue(k)}
      at == IF isArrayIndex(k) /\ after # {} THEN Minimum(after)
            ELSE Len(o.keys) + 1
  IN IF same # {}
     THEN JObject(o.keys, [o.vals EXCEPT ![Minimum(same)] = v])
     ELSE JObject(insertAt(o.keys, at, k), insertAt(o.vals, at, v))

RECURSIVE parseValue(_, _)
RECURSIVE parseElements(_, _, _)
RECURSIVE parseMembers(_, _, _)

\* after an element: t[j] is the next character that is not white space
elementNext(t, acc, j) ==
  IF j <= Len(t) /\ t[j] = "," THEN parseElements(t, skipWs(t, j + 1), acc)
  ELSE IF j <= Len(t) /\ t[j] = "]" THEN Ok(JArray(acc), j + 1)
  ELSE failAt(t, j)

elementValue(t, acc, r) ==
  IF ~r.ok THEN r ELSE elementNext(t, Append(acc, r.val), skipWs(t, r.next))

\* t[i] starts an element of an array whose earlier elements are acc
parseElements(t, i, acc) == elementValue(t, acc, parseValue(t, i))

\* after a member: t[j] is the next character that is not white space
memberNext(t, o, j) ==
  IF j <= Len(t) /\ t[j] = "," THEN parseMembers(t, skipWs(t, j + 1), o)
  ELSE IF j <= Len(t) /\ t[j] = "}" THEN Ok(o, j + 1)
  ELSE failAt(t, j)

memberValue(t, o, key, r) ==
  IF ~r.ok THEN r ELSE memberNext(t, objectSet(o, key, r.val), skipWs(t, r.next))

memberColon(t, o, key, c) ==
  IF c > Len(t) \/ t[c] # ":" THEN failAt(t, c)
  ELSE memberValue(t, o, key, parseValue(t, skipWs(t, c + 1)))

memberKey(t, o, k) ==
  IF ~k.ok THEN k ELSE memberColon(t, o, k.val, skipWs(t, k.next))

\* t[i] starts a member of an object whose earlier members are o
parseMembers(t, i, o) ==
  IF i > Len(t) \/ t[i] # "\"" THEN failAt(t, i)
  ELSE memberKey(t, o, scanString(t, i + 1, <<>>))

\* after the opening brace or bracket: t[j] is the next character
parseObject(t, j) ==
  IF j <= Len(t) /\ t[j] = "}" THEN Ok(JObject(<<>>, <<>>), j + 1)
  ELSE parseMembers(t, j, JObject(<<>>, <<>>))

parseArray(t, j) ==
  IF j <= Len(t) /\ t[j] = "]" THEN Ok(JArray(<<>>), j + 1)
  ELSE parseElements(t, j, <<>>)

\* t[i] starts a value (white space already skipped)
parseValue(t, i) ==
  IF i > Len(t) THEN Fail(Len(t))
  ELSE IF t[i] = "{" THEN parseObject(t, skipWs(t, i + 1))
  ELSE IF t[i] = "[" THEN parseArray(t, skipWs(t, i + 1))
  ELSE IF t[i] = "\"" THEN parseString(t, scanString(t, i + 1, <<>>))
  ELSE IF t[i] = "-" \/ t[i] \in Digits THEN parseNumber(t, i)
  ELSE IF t[i] \in {"t", "f", "n"}
    THEN parseLiteral(t, i, LiteralName(t[i]), LiteralValue(t[i]))
  ELSE Fail(i - 1)

\* nothing but white space may follow the value
parseEnd(t, r, j) == IF j <= Len(t) THEN Fail(j - 1) ELSE r

parseTop(t, r) == IF ~r.ok THEN r ELSE parseEnd(t, r, skipWs(t, r.next))

\* JSON.parse(t): the decoded value, or the offset the decoder rejects t at
JSONparse(t) == parseTop(t, parseValue(t, skipWs(t, 1)))

\* ------------------------------------------------------------------------
\* The SyntaxError message of a rejected text
\* ------------------------------------------------------------------------
\* The message is the host engine's.  The code reads four things off it: the
\* number after "position ", and whether it contains "Unexpected token",
\* "Unexpected number", and a double quote or an opening brace.  A message is
\* modelled by its shape; which shape a rejected text gets is the engine's
\* choice among the shapes that fit the offending character:
\*   UnexpectedEnd     Unexpected end of JSON input
\*   UnexpectedToken   Unexpected token c in JSON at position p
\*   UnexpectedNumber  Unexpected number in JSON at position p
\*   UnexpectedString  Unexpected string in JSON at position p
\*   Expected          Expected ',' or '}' after property value in JSON at position p
\*   NotValidJson      Unexpected token 'c', "..." is not valid JSON
NoMessage == [kind |-> "none"]

\* the shapes that fit the character c rejected at offset p
messagesAt(p, c) ==
  {[kind |-> "Expected", pos |-> p], [kind |-> "NotValidJson", token |-> c]}
  \cup (IF c \in Digits \cup {"-"}
        THEN {[kind |-> "UnexpectedNumber", pos |-> p]} ELSE {})
  \cup (IF c = "\""
        THEN {[kind |-> "UnexpectedString", pos |-> p]} ELSE {})
  \cup (IF c \notin Digits \cup {"\""}
        THEN {[kind |-> "UnexpectedToken", token |-> c, pos |-> p]} ELSE {})

messagesOf(t, r) ==
  IF r.ok THEN {NoMessage}
  ELSE IF r.at >= Len(t)
    THEN {[kind |-> "UnexpectedEnd"], [kind |-> "Expected", pos |-> r.at]}
  ELSE messagesAt(r.at, t[r.at + 1])

NativeMessages(t) == messagesOf(t, JSONparse(t))

\* error.message.match(/position (\d+)/)
hasPositionMatch(m) == m.kind \in {"UnexpectedToken", "UnexpectedNumber",
                                   "UnexpectedString", "Expected"}

\* error.message.includes('Unexpected token')
includesUnexpectedToken(m) == m.kind \in {"UnexpectedToken", "NotValidJson"}

\* error.message.includes('"') || error.message.includes('{')
includesQuoteOrBrace(m) ==
  \/ m.kind = "NotValidJson"
  \/ m.kind = "UnexpectedToken" /\ m.token \in {"\"", "{"}

\* error.message.includes('Unexpected number')
includesUnexpectedNumber(m) == m.kind = "UnexpectedNumber"

\* ------------------------------------------------------------------------
\* Position Mapper
\* ------------------------------------------------------------------------
\* the line and column of the last character of before = text.substring(0, index)
lineColumnOf(lines, index) ==
  [line |-> Len(lines),
   column |-> Len(lines[Len(lines)]) + 1,
   index |-> index]

\* indexToLineColumn counting the column from the offset given, not from the
\* end of text.substring(0, index)
indexToLineColumnUnclamped(text, index) ==
  [line |-> Len(split(substring(text, 0, index))),
   column |-> index - (Len(substring(text, 0, index))
                        - Len(split(substring(text, 0, index))[Len(split(substring(text, 0, index)))])) + 1,
   index |-> index]

indexToLineColumn(text, index) ==
  lineColumnOf(split(substring(text, 0, index)), index)

\* one turn of the loop: newlinePos = this.text.indexOf('\n', pos)
RECURSIVE lineStartFrom(_, _, _)
lineStartStep(text, pos, n, newlinePos) ==
  IF n = 0 \/ newlinePos = -1 THEN pos
  ELSE lineStartFrom(text, newlinePos + 1, n - 1)

lineStartFrom(text, pos, n) ==
  lineStartStep(text, pos, n, indexOf(text, <<"\n">>, pos))

getLineStartPosition(text, lineIndex) == lineStartFrom(text, 0, lineIndex)

\* ------------------------------------------------------------------------
\* ------------------------------------------------------------------------
\* Line Classifier
\* ------------------------------------------------------------------------
isStructuralLine(line) ==
  \/ line \in {<<"{">>, <<"}">>, <<"[">>, <<"]">>, <<",">>}
  \/ startsWith(line, <<"/", "/">>)
  \/ startsWith(line, <<"/", "*">>)

\* /^[a-zA-Z]/.test(s)
startsWithLetter(s) == s # <<>> /\ s[1] \in Letters

\* /^[0-9.-]/.test(s)
startsNumeric(s) == s # <<>> /\ s[1] \in Digits \cup {".", "-"}

\* s with one optional trailing comma removed: the [,]?$ of the patterns
dropComma(s) ==
  IF s # <<>> /\ s[Len(s)] = "," THEN SubSeq(s, 1, Len(s) - 1) ELSE s

\* /^".*"[,]?$/.test(line); the dot does not match a line terminator
quotedShape(line) ==
  \E body \in {line, dropComma(line)} :
    /\ Len(body) >= 2
    /\ body[1] = "\""
    /\ body[Len(body)] = "\""
    /\ \A i \in 1..Len(body) : body[i] \notin {"\n", "\r"}

\* /^[0-9.-]+[,]?$/.test(line)
numericShape(line) ==
  \E body \in {line, dropComma(line)} :
    /\ body # <<>>
    /\ \A i \in 1..Len(body) : body[i] \in Digits \cup {".", "-"}

\* /^(true|false|null)[,]?$/.test(line)
literalShape(line) ==
  \E body \in {line, dropComma(line)} :
    body \in {<<"t", "r", "u", "e">>, <<"f", "a", "l", "s", "e">>,
              <<"n", "u", "l", "l">>}

isValueLine(line) ==
  IF line = <<>> \/ isStructuralLine(line) THEN FALSE
  ELSE \/ includes(line, <<":">>)
       \/ quotedShape(line)
       \/ numericShape(line)
       \/ literalShape(line)
       \/ startsWithLetter(stripTrailing(line, {","} \cup WhiteSpace))

\* needsComma without the test for a line that opens an object or an array
needsCommaIgnoringOpeners(currentLine, nextLine) ==
  isValueLine(currentLine) /\ isValueLine(nextLine) /\ ~endsWith(currentLine, <<",">>)

needsComma(currentLine, nextLine) ==
  IF ~isValueLine(currentLine) \/ ~isValueLine(nextLine) THEN FALSE
  ELSE /\ ~endsWith(currentLine, <<",">>)
       /\ ~endsWith(currentLine, <<"{">>)
       /\ ~endsWith(currentLine, <<"[">>)

\* /^[a-zA-Z_][a-zA-Z0-9_]*$/.test(str.trim())
isValidIdentifier(str) ==
  LET s == trim(str)
  IN /\ s # <<>>
     /\ s[1] \in Letters \cup {"_"}
     /\ \A i \in 2..Len(s) : s[i] \in Letters \cup Digits \cup {"_"}

isValidStringValue(str) ==
  LET trimmed == trim(str)
  IN Len(trimmed) > 0 /\ trimmed[1] \in Letters \cup {"_"}

\* the exponent suffix ([eE][+-]?\d+)? matching exactly s
exponentShape(s) ==
  \/ s = <<>>
  \/ /\ Len(s) >= 2
     /\ s[1] \in {"e", "E"}
     /\ LET d == IF s[2] \in {"+", "-"} THEN SubSeq(s, 3, Len(s))
                 ELSE SubSeq(s, 2, Len(s))
        IN d # <<>> /\ \A i \in 1..Len(d) : d[i] \in Digits

\* (\.\d+)* matching exactly s
RECURSIVE fractionsShape(_)
fractionsShape(s) ==
  \/ s = <<>>
  \/ /\ Len(s) >= 2
     /\ s[1] = "."
     /\ s[2] \in Digits
     /\ fractionsShape(SubSeq(s, digitsEnd(s, 2), Len(s)))

\* str without the optional leading minus sign
unsigned(str) == IF str # <<>> /\ str[1] = "-" THEN Tail(str) ELSE str

\* rest splits into (\.\d+)* followed by ([eE][+-]?\d+)?
fractionsThenExponent(rest) ==
  \E k \in 0..Len(rest) :
    /\ fractionsShape(SubSeq(rest, 1, k))
    /\ exponentShape(SubSeq(rest, k + 1, Len(rest)))

\* rest splits into (\.\d+)? followed by ([eE][+-]?\d+)?
fractionThenExponent(rest) ==
  exponentShape(SubSeq(rest,
                       IF Len(rest) >= 2 /\ rest[1] = "." /\ rest[2] \in Digits
                       THEN digitsEnd(rest, 2) ELSE 1,
                       Len(rest)))

looksLikeDigitsThen(s, intEnd) ==
  intEnd > 1 /\ fractionsThenExponent(SubSeq(s, intEnd, Len(s)))

\* /^-?\d+(\.\d+)*([eE][+-]?\d+)?$/.test(str)
looksLikeNumber(str) == looksLikeDigitsThen(unsigned(str), digitsEnd(unsigned(str), 1))

validDigitsThen(s, intEnd) ==
  intEnd > 1 /\ fractionThenExponent(SubSeq(s, intEnd, Len(s)))

\* /^-?(?:0|[1-9]\d*)(?:\.\d+)?(?:[eE][+-]?\d+)?$/.test(str)
isValidJsonNumber(str) ==
  validDigitsThen(unsigned(str),
                  IF unsigned(str) # <<>> /\ unsigned(str)[1] = "0" THEN 2
                  ELSE digitsEnd(unsigned(str), 1))

isJsonLiteral(str) ==
  \/ str = <<"t", "r", "u", "e">>
  \/ str = <<"f", "a", "l", "s", "e">>
  \/ str = <<"n", "u", "l", "l">>
  \/ isValidJsonNumber(str)

\* ------------------------------------------------------------------------
\* Diagnosers.  Each returns, in order, the addError calls it makes: whether
\* a call is admitted never changes what a diagnoser does next.
\* ------------------------------------------------------------------------
\* one addError(type, message, position) call
Call(type, detail, arg, position) ==
  [type |-> type,
   message |-> [detail |-> detail, arg |-> arg, native |-> NoMessage],
   position |-> position]

\* an addError call whose message quotes the decoder's message m
CallNative(type, detail, m, position) ==
  [type |-> type,
   message |-> [detail |-> detail, arg |-> <<>>, native |-> m],
   position |-> position]

\* the addError call for what was found at offset in the line starting at
\* lineStartPos
CallAt(text, type, detail, arg, lineStartPos, offset) ==
  Call(type, detail, arg, indexToLineColumn(text, lineStartPos + offset))

RECURSIVE concatRange(_, _, _)
concatRange(f, lo, hi) ==
  IF lo > hi THEN <<>> ELSE f[lo] \o concatRange(f, lo + 1, hi)

\* the branches of analyzeKeyPart once the quotes of keyPart are known
analyzeKeyQuotes(text, keyPart, line, lineStartPos, opens, closes, keyName) ==
  IF opens /\ closes /\ Len(keyPart) > 2 THEN <<>>
  ELSE IF opens /\ ~closes THEN
    <<CallAt(text, "UNTERMINATED_STRING", "key has no closing quote", <<>>,
             lineStartPos, indexOf(line, <<"\"">>, 0))>>
  ELSE IF ~opens /\ closes /\ isValidIdentifier(keyName) THEN
    <<CallAt(text, "UNEXPECTED_TOKEN", "key has no opening quote", keyName,
             lineStartPos, indexOf(line, keyName, 0))>>
  ELSE IF ~opens /\ ~closes /\ isValidIdentifier(keyPart) THEN
    <<CallAt(text, "UNEXPECTED_TOKEN", "key has no quotes", keyPart,
             lineStartPos, indexOf(line, keyPart, 0))>>
  ELSE <<>>

analyzeKeyPart(text, keyPart, line, lineStartPos) ==
  IF keyPart = <<>> THEN <<>>
  ELSE analyzeKeyQuotes(text, keyPart, line, lineStartPos,
                        startsWith(keyPart, <<"\"">>),
                        endsWith(keyPart, <<"\"">>),
                        trim(SubSeq(keyPart, 1, Len(keyPart) - 1)))

\* the string branches of analyzeValuePart
analyzeValueQuotes(text, cleanValue, line, lineStartPos, colonIndex, opens, closes, valueStart, actualValue) ==
  IF opens /\ closes /\ Len(cleanValue) > 2 THEN <<>>
  ELSE IF opens /\ ~closes /\ valueStart # -1 THEN
    <<CallAt(text, "UNTERMINATED_STRING", "value has no closing quote", <<>>,
             lineStartPos, valueStart)>>
  ELSE IF /\ ~opens /\ closes
          /\ isValidStringValue(actualValue)
          /\ indexOf(line, actualValue, colonIndex) # -1 THEN
    <<CallAt(text, "UNEXPECTED_TOKEN", "value has no opening quote", actualValue,
             lineStartPos, indexOf(line, actualValue, colonIndex))>>
  ELSE IF /\ ~opens /\ ~closes
          /\ isValidStringValue(cleanValue)
          /\ valueStart # -1 THEN
    <<CallAt(text, "UNEXPECTED_TOKEN", "value has no quotes", cleanValue,
             lineStartPos, valueStart)>>
  ELSE <<>>

\* analyzeValuePart from the point where cleanValue is known
analyzeCleanValue(text, cleanValue, line, lineStartPos, colonIndex, valueStart) ==
  IF cleanValue = <<>> THEN <<>>
  ELSE IF startsWith(cleanValue, <<"{">>) \/ startsWith(cleanValue, <<"[">>) THEN <<>>
  ELSE IF /\ looksLikeNumber(cleanValue)
          /\ ~isValidJsonNumber(cleanValue)
          /\ valueStart # -1 THEN
    <<CallAt(text, "INVALID_NUMBER", "not a valid number format", cleanValue,
             lineStartPos, valueStart)>>
  ELSE IF isJsonLiteral(cleanValue) THEN <<>>
  ELSE analyzeValueQuotes(text, cleanValue, line, lineStartPos, colonIndex,
                          startsWith(cleanValue, <<"\"">>),
                          endsWith(cleanValue, <<"\"">>),
                          valueStart,
                          trim(SubSeq(cleanValue, 1, Len(cleanValue) - 1)))

\* valuePart.replace(/[,}\]\s]*$/, '').trim()
cleanValueOf(valuePart) ==
  trim(stripTrailing(valuePart, {",", "}", "]"} \cup WhiteSpace))

analyzeValuePart(text, valuePart, line, lineStartPos, colonIndex) ==
  IF valuePart = <<>> THEN <<>>
  ELSE analyzeCleanValue(text, cleanValueOf(valuePart), line, lineStartPos,
                         colonIndex,
                         indexOf(line, cleanValueOf(valuePart), colonIndex))

analyzeKeyValueParts(text, line, lineStartPos, trimmed, colonIndex) ==
  analyzeKeyPart(text, trim(substring(trimmed, 0, colonIndex)), line, lineStartPos)
  \o analyzeValuePart(text, trim(substringFrom(trimmed, colonIndex + 1)),
                      line, lineStartPos, colonIndex)

analyzeKeyValueLine(text, line, lineStartPos, trimmed) ==
  analyzeKeyValueParts(text, line, lineStartPos, trimmed,
                       indexOf(trimmed, <<":">>, 0))

\* the string branches of analyzeValueLine
analyzeElementQuotes(text, cleanElement, line, lineStartPos, opens, closes, actualElement) ==
  IF opens /\ closes /\ Len(cleanElement) > 2 THEN <<>>
  ELSE IF opens /\ ~closes THEN
    <<CallAt(text, "UNTERMINATED_STRING", "array element has no closing quote",
             <<>>, lineStartPos, indexOf(line, <<"\"">>, 0))>>
  ELSE IF /\ ~opens /\ closes
          /\ isValidStringValue(actualElement)
          /\ indexOf(line, actualElement, 0) # -1 THEN
    <<CallAt(text, "UNEXPECTED_TOKEN", "array element has no opening quote",
             actualElement, lineStartPos, indexOf(line, actualElement, 0))>>
  ELSE IF /\ ~opens /\ ~closes
          /\ isValidStringValue(cleanElement)
          /\ indexOf(line, cleanElement, 0) # -1 THEN
    <<CallAt(text, "UNEXPECTED_TOKEN", "array element has no quotes",
             cleanElement, lineStartPos, indexOf(line, cleanElement, 0))>>
  ELSE <<>>

analyzeCleanElement(text, cleanElement, line, lineStartPos) ==
  IF cleanElement = <<>> \/ isJsonLiteral(cleanElement) THEN <<>>
  ELSE analyzeElementQuotes(text, cleanElement, line, lineStartPos,
                            startsWith(cleanElement, <<"\"">>),
                            endsWith(cleanElement, <<"\"">>),
                            trim(SubSeq(cleanElement, 1, Len(cleanElement) - 1)))

analyzeValueLine(text, line, lineStartPos, trimmed) ==
  analyzeCleanElement(text, trim(stripTrailing(trimmed, {","} \cup WhiteSpace)),
                      line, lineStartPos)

\* the body of the loop over the lines, for the line at lineIndex
analyzeLine(text, line, trimmed, lineIndex) ==
  IF trimmed = <<>> \/ isStructuralLine(trimmed) THEN <<>>
  ELSE IF includes(trimmed, <<":">>)
    THEN analyzeKeyValueLine(text, line, getLineStartPosition(text, lineIndex), trimmed)
    ELSE analyzeValueLine(text, line, getLineStartPosition(text, lineIndex), trimmed)

patternCalls(text, lines) ==
  concatRange([lineIndex \in 0..(Len(lines) - 1) |->
                 analyzeLine(text, lines[lineIndex + 1],
                             trim(lines[lineIndex + 1]), lineIndex)],
              0, Len(lines) - 1)

\* Pattern Diagnoser
performPatternAnalysis(text) == patternCalls(text, split(text))

isStructureEnd(line) ==
  \/ line = <<"}">>
  \/ line = <<"]">>
  \/ endsWith(line, <<"}">>)
  \/ endsWith(line, <<"]">>)

isNewElement(line) ==
  IF line = <<>> \/ isStructuralLine(line) THEN FALSE
  ELSE IF includes(line, <<":">>)
    THEN Len(trim(substring(line, 0, indexOf(line, <<":">>, 0)))) > 0
    ELSE \/ startsWith(line, <<"\"">>)
         \/ startsNumeric(line)
         \/ startsWith(line, <<"t", "r", "u", "e">>)
         \/ startsWith(line, <<"f", "a", "l", "s", "e">>)
         \/ startsWith(line, <<"n", "u", "l", "l">>)
         \/ startsWith(line, <<"{">>)
         \/ startsWith(line, <<"[">>)
         \/ startsWithLetter(line)

isMultilineStructureEnd(line) == line = <<"}">> \/ line = <<"]">>

isValueOrKeyLine(line) ==
  IF line = <<>> \/ isStructuralLine(line) THEN FALSE
  ELSE IF includes(line, <<":">>) THEN TRUE
  ELSE \/ startsWith(line, <<"\"">>)
       \/ startsNumeric(line)
       \/ startsWith(line, <<"t", "r", "u", "e">>)
       \/ startsWith(line, <<"f", "a", "l", "s", "e">>)
       \/ startsWith(line, <<"n", "u", "l", "l">>)
       \/ startsWithLetter(stripTrailing(line, {","} \cup WhiteSpace))

\* one turn of the loop over the next two lines: i is a 0-based line index
RECURSIVE commaLineWithin(_, _, _)
commaLineStep(lines, i, last, nextLine) ==
  IF nextLine = <<",">> THEN TRUE
  ELSE IF nextLine # <<>> /\ ~isStructuralLine(nextLine) THEN FALSE
  ELSE commaLineWithin(lines, i + 1, last)

commaLineWithin(lines, i, last) ==
  IF i >= last THEN FALSE
  ELSE commaLineStep(lines, i, last, trim(lines[i + 1]))

hasCommaAfterStructure(lines, structureEndLineIndex) ==
  IF endsWith(trim(lines[structureEndLineIndex + 1]), <<",">>) THEN TRUE
  ELSE commaLineWithin(lines, structureEndLineIndex + 1,
                       Min(structureEndLineIndex + 3, Len(lines)))

\* the position of the last character of the line at lineIndex
lineEndPosition(text, lines, lineIndex) ==
  indexToLineColumn(text,
    getLineStartPosition(text, lineIndex) + Len(lines[lineIndex + 1]) - 1)

\* the two checks of the loop body, for the line at lineIndex
structureCalls(lines, lineIndex, currentLine, nextLine, position) ==
  (IF /\ isStructureEnd(currentLine)
      /\ isNewElement(nextLine)
      /\ ~endsWith(currentLine, <<",">>)
   THEN <<Call("SYNTAX_ERROR", "comma missing after end of object/array",
               <<>>, position)>>
   ELSE <<>>)
  \o
  (IF /\ isMultilineStructureEnd(currentLine)
      /\ isValueOrKeyLine(nextLine)
      /\ ~hasCommaAfterStructure(lines, lineIndex)
   THEN <<Call("SYNTAX_ERROR", "comma missing after object/array",
               <<>>, position)>>
   ELSE <<>>)

structureCallsOfLines(text, lines) ==
  concatRange([lineIndex \in 0..(Len(lines) - 2) |->
                 structureCalls(lines, lineIndex,
                                trim(lines[lineIndex + 1]),
                                trim(lines[lineIndex + 2]),
                                lineEndPosition(text, lines, lineIndex))],
              0, Len(lines) - 2)

detectMissingCommasAfterStructures(text) == structureCallsOfLines(text, split(text))

commaCallsOfLines(text, lines) ==
  concatRange([lineIndex \in 0..(Len(lines) - 2) |->
                 IF needsComma(trim(lines[lineIndex + 1]), trim(lines[lineIndex + 2]))
                 THEN <<Call("SYNTAX_ERROR", "comma missing", <<>>,
                             lineEndPosition(text, lines, lineIndex))>>
                 ELSE <<>>],
              0, Len(lines) - 2)

\* Comma Diagnoser
performCommaAnalysis(text) ==
  commaCallsOfLines(text, split(text)) \o detectMissingCommasAfterStructures(text)

\* the loop from line index lineIndex down to 0; <<>> stands for null
RECURSIVE previousValueLineEndFrom(_, _, _)
previousValueLineEndFrom(text, lines, lineIndex) ==
  IF lineIndex < 0 THEN <<>>
  ELSE IF isValueLine(trim(lines[lineIndex + 1]))
    THEN <<lineEndPosition(text, lines, lineIndex)>>
  ELSE previousValueLineEndFrom(text, lines, lineIndex - 1)

findPreviousValueLineEnd(text, currentLine) ==
  previousValueLineEndFrom(text, split(text), currentLine - 2)

\* mapPositioned without the search for a previous value line
mapPositionedAtOffset(m, lineCol, prevLineCol) ==
  IF includesUnexpectedNumber(m)
  THEN <<CallNative("INVALID_NUMBER", "not a valid number format", m, lineCol)>>
  ELSE <<CallNative("SYNTAX_ERROR", "JSON syntax error", m, lineCol)>>

\* the addError call for a message with a position, prevLineCol being what
\* findPreviousValueLineEnd returned when it was asked
mapPositioned(m, lineCol, prevLineCol) ==
  IF /\ includesUnexpectedToken(m)
     /\ includesQuoteOrBrace(m)
     /\ prevLineCol # <<>>
  THEN <<Call("SYNTAX_ERROR", "comma missing on the previous line", <<>>,
              prevLineCol[1])>>
  ELSE IF includesUnexpectedNumber(m)
    THEN <<CallNative("INVALID_NUMBER", "not a valid number format", m, lineCol)>>
  ELSE <<CallNative("SYNTAX_ERROR", "JSON syntax error", m, lineCol)>>

mapLineCol(text, m, lineCol) ==
  mapPositioned(m, lineCol, findPreviousValueLineEnd(text, lineCol.line))

\* what the catch block of the mapper does with the SyntaxError of message m
mapSyntaxError(text, m) ==
  IF ~hasPositionMatch(m) THEN <<>>
  ELSE mapLineCol(text, m, indexToLineColumn(text, m.pos))

\* Native-Parse Mapper: try { JSON.parse(this.text) } catch (error) { ... };
\* threw says whether an exception leaves the method
performJsonParseErrorMappingNoCatch(text, m) ==
  [calls |-> <<>>, threw |-> ~JSONparse(text).ok]

performJsonParseErrorMapping(text, m) ==
  [calls |-> IF JSONparse(text).ok THEN <<>> ELSE mapSyntaxError(text, m),
   threw |-> FALSE]

\* ------------------------------------------------------------------------
\* Diagnostic Aggregator
\* ------------------------------------------------------------------------
maxErrors == 15

\* ERROR_MESSAGES_KO[type] and getSuggestion(type) are tables keyed by the type
getSuggestion(type) == [suggestionFor |-> type]

\* one JsonParseError with a position
Diagnostic(type, message, pos) ==
  [type |-> "JSON_PARSE_ERROR",
   code |-> type,
   message |-> [summary |-> type, detail |-> message.detail,
                arg |-> message.arg, native |-> message.native],
   line |-> pos.line,
   column |-> pos.column,
   index |-> pos.index,
   suggestion |-> getSuggestion(type)]

\* the fields of the analyzer of the current parseJson call
VARIABLES
  errors,          \* analyzer.errors
  errorPositions   \* analyzer.errorPositions

\* an analyzer whose errorPositions set is not cleared between calls
StaleAnalyzer == [errors |-> <<>>, errorPositions |-> errorPositions]

\* the analyzer's fields this.errors and this.errorPositions
NewAnalyzer == [errors |-> <<>>, errorPositions |-> {}]

addErrorNoDedup(an, call) ==
  IF Len(an.errors) >= maxErrors THEN an
  ELSE [errors |-> Append(an.errors,
                          Diagnostic(call.type, call.message, call.position)),
        errorPositions |-> an.errorPositions \cup {call.position.index}]

addErrorNoCap(an, call) ==
  IF call.position.index \in an.errorPositions THEN an
  ELSE [errors |-> Append(an.errors,
                          Diagnostic(call.type, call.message, call.position)),
        errorPositions |-> an.errorPositions \cup {call.position.index}]

addError(an, call) ==
  IF call.position.index \in an.errorPositions THEN an
  ELSE IF Len(an.errors) >= maxErrors THEN an
  ELSE [errors |-> Append(an.errors,
                          Diagnostic(call.type, call.message, call.position)),
        errorPositions |-> an.errorPositions \cup {call.position.index}]

\* the addError calls of one diagnoser, in order
RECURSIVE addErrors(_, _)
addErrors(an, calls) ==
  IF calls = <<>> THEN an
  ELSE addErrors(addError(an, Head(calls)), Tail(calls))

\* the comparator of the final sort
compareErrors(a, b) ==
  IF a.line # b.line THEN a.line - b.line ELSE a.column - b.column

\* Array.prototype.sort is stable: x goes before the first entry it precedes
insertSorted(sorted, x) ==
  LET greater == {i \in 1..Len(sorted) : compareErrors(sorted[i], x) > 0}
  IN insertAt(sorted, IF greater = {} THEN Len(sorted) + 1 ELSE Minimum(greater), x)

RECURSIVE sortErrors(_)
sortErrors(errs) ==
  IF errs = <<>> THEN <<>>
  ELSE insertSorted(sortErrors(SubSeq(errs, 1, Len(errs) - 1)), errs[Len(errs)])

RECURSIVE uniqueErrors(_)
uniqueErrors(errs) ==
  IF errs = <<>> THEN <<>>
  ELSE LET kept == uniqueErrors(SubSeq(errs, 1, Len(errs) - 1))
           error == errs[Len(errs)]
           isDuplicate == \E i \in 1..Len(kept) :
                            kept[i].line = error.line /\ kept[i].index = error.index
       IN IF isDuplicate THEN kept ELSE Append(kept, error)

removeDuplicateNoSort(errs) == uniqueErrors(errs)

removeDuplicateAndSort(errs) == sortErrors(uniqueErrors(errs))

\* ------------------------------------------------------------------------
\* parseJson and validateJson
\* ------------------------------------------------------------------------
\* !text.trim()
isBlankExact(text) == text = <<>>

isBlank(text) == trim(text) = <<>>

EmptyResult ==
  [data |-> JNull,
   isValid |-> FALSE,
   errors |-> <<[type |-> "JSON_PARSE_ERROR",
                 code |-> "UNEXPECTED_END",
                 message |-> [summary |-> "none", detail |-> "JSON text is empty",
                              arg |-> <<>>, native |-> NoMessage],
                 suggestion |-> [suggestionFor |-> "enter valid JSON"]]>>]

ValidResult(data) == [data |-> data, isValid |-> TRUE, errors |-> <<>>]

\* the diagnostic parseJson substitutes when analyze() returns nothing
GenericError(m) ==
  [type |-> "JSON_PARSE_ERROR",
   code |-> "SYNTAX_ERROR",
   message |-> [summary |-> "none", detail |-> "JSON parsing error",
                arg |-> <<>>, native |-> m],
   suggestion |-> [suggestionFor |-> "check the JSON syntax"]]

InvalidResultNoFallback(detailedErrors, m) ==
  [data |-> JNull, isValid |-> FALSE, errors |-> detailedErrors]

InvalidResult(detailedErrors, m) ==
  [data |-> JNull,
   isValid |-> FALSE,
   errors |-> IF Len(detailedErrors) > 0 THEN detailedErrors
              ELSE <<GenericError(m)>>]

\* analyzer.analyze() as one function of the text and the decoder's message
analyzeSteps(text, m, afterPattern) ==
  removeDuplicateAndSort(
    addErrors(addErrors(afterPattern, performCommaAnalysis(text)),
              performJsonParseErrorMapping(text, m).calls).errors)

analyze(text, m) ==
  analyzeSteps(text, m, addErrors(NewAnalyzer, performPatternAnalysis(text)))

\* parseJson once the decoder has answered r, m being the message it throws
parseJsonDecoded(text, r, m) ==
  IF r.ok THEN ValidResult(r.val) ELSE InvalidResult(analyze(text, m), m)

parseJson(text, m) ==
  IF isBlank(text) THEN EmptyResult ELSE parseJsonDecoded(text, JSONparse(text), m)

validateJson(result) == [isValid |-> result.isValid, errors |-> result.errors]

\* ------------------------------------------------------------------------
\* Tree Synthesizer
\* ------------------------------------------------------------------------
\* /^[a-zA-Z_$][a-zA-Z0-9_$]*$/.test(key)
isIdentifierKey(key) ==
  /\ key # <<>>
  /\ key[1] \in Letters \cup {"_", "$"}
  /\ \A i \in 2..Len(key) : key[i] \in Letters \cup Digits \cup {"_", "$"}

\* createPath without the test of the key against the identifier pattern
createPathDotted(parentPath, key, isArray) ==
  IF parentPath = <<>> THEN <<"$">>
  ELSE IF isArray THEN parentPath \o <<"[">> \o key \o <<"]">>
  ELSE parentPath \o <<".">> \o key

createPath(parentPath, key, isArray) ==
  IF parentPath = <<>> THEN <<"$">>
  ELSE IF isArray THEN parentPath \o <<"[">> \o key \o <<"]">>
  ELSE IF isIdentifierKey(key) THEN parentPath \o <<".">> \o key
  ELSE parentPath \o <<"[", "\"">> \o key \o <<"\"", "]">>

getValueType(value) == value.type

\* Object.keys(value) / the indices of an array, as strings
childKeys(value) ==
  IF value.type = "object" THEN value.keys
  ELSE IF value.type = "array" THEN [i \in 1..Len(value.items) |-> intToString(i - 1)]
  ELSE <<>>

childValues(value) ==
  IF value.type = "object" THEN value.vals
  ELSE IF value.type = "array" THEN value.items
  ELSE <<>>

\* the number of generateId() calls synthesizing value takes
RECURSIVE nodeCount(_)
RECURSIVE nodeCountOf(_, _)
nodeCountOf(vals, n) ==
  IF n = 0 THEN 0 ELSE nodeCountOf(vals, n - 1) + nodeCount(vals[n])

nodeCount(value) == 1 + nodeCountOf(childValues(value), Len(childValues(value)))

\* a node value that keeps a container instead of the null placeholder
nodeValueKept(type, value) == value

\* type === 'object' || type === 'array' ? null : value
nodeValue(type, value) ==
  IF type = "object" \/ type = "array" THEN JNull ELSE value

\* ids[k] is what the k-th generateId() call of the synthesis returns; a node
\* draws its id before its children are created
RECURSIVE createTreeNode(_, _, _, _, _, _, _)
createTreeNode(key, value, parentPath, depth, isArrayElement, ids, k) ==
  LET path == createPath(parentPath, key, isArrayElement)
      type == getValueType(value)
      keys == childKeys(value)
      vals == childValues(value)
  IN [id |-> ids[k],
      key |-> key,
      value |-> nodeValue(type, value),
      type |-> type,
      path |-> path,
      children |-> [j \in 1..Len(vals) |->
                      createTreeNode(keys[j], vals[j], path, depth + 1,
                                     type = "array", ids,
                                     k + 1 + nodeCountOf(vals, j - 1))],
      expanded |-> depth < 3,
      depth |-> depth]

generateTree(data, ids) ==
  LET keys == childKeys(data)
      vals == childValues(data)
  IN <<[id |-> ids[1],
        key |-> <<"r", "o", "o", "t">>,
        value |-> IF data.type \in {"object", "array"} THEN JNull ELSE data,
        type |-> getValueType(data),
        path |-> <<"$">>,
        children |-> [j \in 1..Len(vals) |->
                        createTreeNode(keys[j], vals[j], <<"$">>, 1,
                                       data.type = "array", ids,
                                       2 + nodeCountOf(vals, j - 1))],
        expanded |-> TRUE,
        depth |-> 0]>>

\* the values generateId() can return
IdSpace == 1..MaxId

\* ------------------------------------------------------------------------
\* Operations on a node forest (tree-generator.ts)
\* ------------------------------------------------------------------------
Alphabet ==
  <<"a", "b", "c", "d", "e", "f", "g", "h", "i", "j", "k", "l", "m",
    "n", "o", "p", "q", "r", "s", "t", "u", "v", "w", "x", "y", "z">>

Capitals ==
  <<"A", "B", "C", "D", "E", "F", "G", "H", "I", "J", "K", "L", "M",
    "N", "O", "P", "Q", "R", "S", "T", "U", "V", "W", "X", "Y", "Z">>

lowerChar(c) ==
  IF c \in UpperLetters THEN Alphabet[CHOOSE i \in 1..26 : Capitals[i] = c] ELSE c

\* String.prototype.toLowerCase
toLowerCase(s) == [i \in 1..Len(s) |-> lowerChar(s[i])]

zeros(n) == [i \in 1..n |-> "0"]

\* the digits ds of a number scaled by 10^e, e < 0, in decimal notation
decimalString(ds, e) ==
  IF Len(ds) > -e
  THEN SubSeq(ds, 1, Len(ds) + e) \o <<".">> \o SubSeq(ds, Len(ds) + e + 1, Len(ds))
  ELSE <<"0", ".">> \o zeros(-e - Len(ds)) \o ds

\* String(value) of a number whose magnitude is 0 or from 1e-6 up to 1e21,
\* the range in which JavaScript uses no exponent
numberToString(n) ==
  (IF n.neg /\ n.m # 0 THEN <<"-">> ELSE <<>>)
  \o (IF n.e >= 0 THEN intToString(n.m) \o zeros(n.e)
      ELSE decimalString(intToString(n.m), n.e))

valueToString(value) ==
  IF value.type = "null" THEN <<"n", "u", "l", "l">>
  ELSE IF value.type = "string" THEN <<"\"">> \o value.s \o <<"\"">>
  ELSE IF value.type = "array"
  THEN <<"A", "r", "r", "a", "y", "(">> \o intToString(Len(value.items)) \o <<")">>
  ELSE IF value.type = "object"
  THEN <<"O", "b", "j", "e", "c", "t", "(">> \o intToString(Len(value.keys)) \o <<")">>
  ELSE IF value.type = "boolean"
  THEN (IF value.b THEN <<"t", "r", "u", "e">> ELSE <<"f", "a", "l", "s", "e">>)
  ELSE numberToString(value)

\* nodeKey.includes(searchQuery) || nodeValue.includes(searchQuery)
nodeMatches(node, searchQuery, caseSensitive) ==
  \/ includes(IF caseSensitive THEN node.key ELSE toLowerCase(node.key),
              searchQuery)
  \/ includes(IF caseSensitive THEN valueToString(node.value)
              ELSE toLowerCase(valueToString(node.value)),
              searchQuery)

\* nodes.forEach(searchNode): the results pushed, in order
RECURSIVE searchNodes(_, _, _)
searchNodes(nodes, searchQuery, caseSensitive) ==
  IF nodes = <<>> THEN <<>>
  ELSE (IF nodeMatches(Head(nodes), searchQuery, caseSensitive)
        THEN <<Head(nodes)>> ELSE <<>>)
       \o searchNodes(Head(nodes).children, searchQuery, caseSensitive)
       \o searchNodes(Tail(nodes), searchQuery, caseSensitive)

\* searchTree comparing the letters as they are, whatever caseSensitive is
searchTreeExact(nodes, query, caseSensitive) == searchNodes(nodes, query, TRUE)

searchTree(nodes, query, caseSensitive) ==
  searchNodes(nodes, IF caseSensitive THEN query ELSE toLowerCase(query),
              caseSensitive)

\* the null findNodeByPath returns
NoNode == [type |-> "no node"]

\* if (result) return result; and then the next node of the loop
RECURSIVE findNodeByPath(_, _)
RECURSIVE firstFound(_, _, _)
firstFound(found, rest, path) ==
  IF found # NoNode THEN found ELSE findNodeByPath(rest, path)

findNodeByPath(nodes, path) ==
  IF nodes = <<>> THEN NoNode
  ELSE IF Head(nodes).path = path THEN Head(nodes)
  ELSE firstFound(findNodeByPath(Head(nodes).children, path), Tail(nodes), path)

\* toggleNodeExpansion writing the flag into the node it was given
toggleNodeExpansionInPlace(node) ==
  [returned |-> [node EXCEPT !.expanded = ~node.expanded],
   node |-> [node EXCEPT !.expanded = ~node.expanded]]

\* { ...node, expanded: !node.expanded }: the object returned, and the
\* argument as the call leaves it
toggleNodeExpansion(node) ==
  [returned |-> [node EXCEPT !.expanded = ~node.expanded], node |-> node]

\* toggleAllNodes that does not descend into the children
toggleAllNodesShallow(nodes, expanded) ==
  [j \in 1..Len(nodes) |-> [nodes[j] EXCEPT !.expanded = expanded]]

RECURSIVE toggleAllNodes(_, _)
toggleAllNodes(nodes, expanded) ==
  [j \in 1..Len(nodes) |->
     [nodes[j] EXCEPT !.expanded = expanded,
                      !.children = toggleAllNodes(nodes[j].children, expanded)]]

\* typeCounts[type] = (typeCounts[type] || 0) + 1
countType(typeCounts, type) ==
  IF type \in DOMAIN typeCounts THEN [typeCounts EXCEPT ![type] = @ + 1]
  ELSE typeCounts @@ (type :> 1)

\* nodes.forEach(analyzeNode) on the counters so far
RECURSIVE analyzeNodes(_, _)
RECURSIVE analyzeNode(_, _)
analyzeNode(node, counters) ==
  analyzeNodes(node.children,
               [totalNodes |-> counters.totalNodes + 1,
                maxDepth |-> Max(counters.maxDepth, node.depth),
                typeCounts |-> countType(counters.typeCounts, node.type)])

analyzeNodes(nodes, counters) ==
  IF nodes = <<>> THEN counters
  ELSE analyzeNodes(Tail(nodes), analyzeNode(Head(nodes), counters))

\* nodes.filter(node => node.children.length > 0).length
withChildren(nodes) ==
  Cardinality({j \in 1..Len(nodes) : Len(nodes[j].children) > 0})

treeStats(nodes, counters) ==
  [totalNodes |-> counters.totalNodes,
   maxDepth |-> counters.maxDepth,
   typeCounts |-> counters.typeCounts,
   leafNodes |-> counters.totalNodes - withChildren(nodes)]

getTreeStats(nodes) ==
  treeStats(nodes, analyzeNodes(nodes, [totalNodes |-> 0, maxDepth |-> 0,
                                       typeCounts |-> [t \in {} |-> 0]]))

\* the number of nodes of a forest
RECURSIVE forestSize(_)
forestSize(nodes) ==
  IF nodes = <<>> THEN 0
  ELSE 1 + forestSize(Head(nodes).children) + forestSize(Tail(nodes))

\* the j-th node of a forest in depth-first pre-order
RECURSIVE nodeAt(_, _)
nodeAt(nodes, j) ==
  IF j = 1 THEN Head(nodes)
  ELSE IF j <= 1 + forestSize(Head(nodes).children)
  THEN nodeAt(Head(nodes).children, j - 1)
  ELSE nodeAt(Tail(nodes), j - 1 - forestSize(Head(nodes).children))

\* the forest with new in the place of its j-th node
RECURSIVE replaceNode(_, _, _)
replaceNode(nodes, j, new) ==
  IF j = 1 THEN <<new>> \o Tail(nodes)
  ELSE IF j <= 1 + forestSize(Head(nodes).children)
  THEN <<[Head(nodes) EXCEPT !.children = replaceNode(@, j - 1, new)]>>
       \o Tail(nodes)
  ELSE <<Head(nodes)>>
       \o replaceNode(Tail(nodes), j - 1 - forestSize(Head(nodes).children), new)


\* ------------------------------------------------------------------------
\* Input texts
\* ------------------------------------------------------------------------
\* the lines the short texts are built from
LineShapes ==
  {<<>>,
   <<"{">>,
   <<"}">>,
   <<"]">>,
   <<"\"", "a", "\"", ":", " ", "1">>,
   <<"\"", "a", "\"", ":", " ", "1", ",">>,
   <<"b", ":", " ", "\"", "x">>,
   <<"1">>,
   <<"0", "1">>,
   <<"a", "b">>,
   <<"\"", "x", "\"">>,
   <<"[">>,
   <<",">>,
   <<"\"", "a", "\"", ":", " ", "0", "1">>,
   <<"\"", "a", "\"", ":", " ", "x", "\"">>,
   <<"a", "\"", ":", " ", "1">>,
   <<"\"", "a", ":", " ", "1">>,
   <<"x", "\"">>,
   <<"\"", "x">>,
   <<"t", "r", "u", "e">>,
   <<"}", ",">>,
   <<" ", " ", "\"", "b", "\"", ":", " ", "2">>,
   <<"\"", "a", "\"", ":", " ", "{">>,
   <<"1", ".", "2", ".", "3">>}

\* the single-line scenarios of the documentation
ScenarioTexts ==
  {<<"{", "\"", "a", "\"", ":", " ", "1", ",", " ", "\"", "a", "\"", ":", " ", "2", "}">>,
   <<"{", "\"", "a", "\"", ":", " ", "1", ",", " ", "\"", "b", "\"", ":", " ", "2", ",", "}">>,
   <<"{", "\"", "a", "\"", ":", " ", "\"", "x", "}">>,
   <<"{", "\"", "n", "a", "m", "e", "\"", ":", " ", "}">>,
   <<"{", "\"", "x", "\"", ":", "[", "1", ",", "2", "]", "}">>,
   <<"\"", "a", ":", "b", "\"">>,
   <<" ", " ", " ", "\"", "x", "\"", ":", " ", "\"", "x">>,
   <<"{", "\"", "a", " ", "b", "\"", ":", "[", "{", "}", ",", "1", "]", ",", "\"", "c", "\"", ":", "[", "]", "}">>,
   <<"{", "\"", "-", "\"", ":", "{", "\"", "-", "\"", ":", "1", "}", ",", "\"", "-", "\\", "\"", "]", "[", "\\", "\"", "-", "\"", ":", "2", "}">>,
   <<"{", "\"", "A", "\"", ":", "\"", "b", "\"", ",", "\"", "n", "\"", ":", "n", "u", "l", "l", ",", "\"", "t", "\"", ":", "t", "r", "u", "e", "}">>,
   <<"}", "\n", "1", "\n", ",">>,
   <<" ">>}

\* the lines repeated to build texts of more than maxErrors lines
RepeatLines == {<<"a", "b">>, <<"x">>}

RECURSIVE repeatLine(_, _)
repeatLine(line, n) ==
  IF n <= 1 THEN line ELSE repeatLine(line, n - 1) \o <<"\n">> \o line

RECURSIVE textsOfLines(_)
textsOfLines(n) ==
  IF n <= 1 THEN LineShapes
  ELSE {t \o <<"\n">> \o l : t \in textsOfLines(n - 1), l \in LineShapes}

Texts ==
  UNION {textsOfLines(n) : n \in 1..MaxLines}
  \cup ScenarioTexts
  \cup {repeatLine(l, MaxRepeat) : l \in RepeatLines}

\* the texts the application state machine is driven with
AppTexts ==
  {<<>>,
   <<" ">>,
   <<"1">>,
   <<"{">>,
   <<"n", "u", "l", "l">>,
   <<"[", "1", "]">>}

\* ------------------------------------------------------------------------
\* The application store (app-state.ts)
\* ------------------------------------------------------------------------
\* $derived parseResult: the store answers an empty text itself
storeParseResult(jt, m) ==
  IF isBlank(jt) THEN [data |-> JNull, isValid |-> FALSE, errors |-> <<>>]
  ELSE parseJson(jt, m)

\* the values parseResult can take for the text jt
storeParseResults(jt) == {storeParseResult(jt, m) : m \in NativeMessages(jt)}

\* $derived treeData
storeTreeData(pr, ids) ==
  IF pr.isValid /\ pr.data # JNull THEN generateTree(pr.data, ids) ELSE <<>>

storeTreeDatas(pr) ==
  {storeTreeData(pr, ids) : ids \in [1..nodeCount(pr.data) -> IdSpace]}

\* a cap that drops the newest entry instead of the oldest
capHistoryDropNewest(h) == IF Len(h) > MaxHistory THEN SubSeq(h, 1, MaxHistory) ELSE h

\* history.shift() once the history is longer than the cap
capHistory(h) == IF Len(h) > MaxHistory THEN Tail(h) ELSE h

\* ------------------------------------------------------------------------
\* State, with the analyzer's two fields declared above.  The engine runs
\* parseJson(text), validateJson(text) and generateTree(data), each a second
\* time on the same input; the store holds jsonText with its derived values
\* and the undo history.
\* ------------------------------------------------------------------------
VARIABLES
  text,            \* the input text
  native,          \* the message of the SyntaxError the decoder throws for text
  pc,              \* where the current parseJson call is
  callNo,          \* 1 for the first round of calls, 2 for the second
  reported,        \* every addError call of the current analyze(), in order
  consulted,       \* the components the current parseJson call has run
  result,          \* what parseJson returned
  validation,      \* what validateJson returned
  tree,            \* what generateTree returned
  priorResult,     \* the first round's parseJson result
  priorTree,       \* the first round's tree
  jsonText,        \* app-state.ts: jsonText
  parseResult,     \* app-state.ts: parseResult
  treeData,        \* app-state.ts: treeData
  history,         \* app-state.ts: history
  historyIndex,    \* app-state.ts: historyIndex
  forest,          \* the node forest a caller of the tree operations holds
  treeOp,          \* the last tree operation: its arguments and what it returned
  expandedNodes,   \* +page.svelte: expandedNodes, the keys of the expanded rows
  located          \* the last indexToLineColumn call: its offset and what it returned

engineVars == <<text, native, pc, callNo, errors, errorPositions, reported,
                consulted, result, validation, tree, priorResult, priorTree>>

storeVars == <<jsonText, parseResult, treeData, history, historyIndex>>

treeVars == <<forest, treeOp>>

pageVars == <<expandedNodes, located>>

vars == <<engineVars, storeVars, treeVars, pageVars>>

\* no tree operation has been called
NoOp == [op |-> "none"]

\* no forest is held
TreeIdle == forest = <<>> /\ treeOp = NoOp

\* indexToLineColumn has not been called
NoPosition == [offset |-> -1]

\* the page shows no tree and no position has been asked for
PageIdle == expandedNodes = {} /\ located = NoPosition

NoResult == [isValid |-> FALSE, data |-> JNull, errors |-> <<>>, pending |-> TRUE]

NoValidation == [pending |-> TRUE]

\* the engine before parseJson(t) is called
EngineInit(t) ==
  /\ text = t
  /\ native \in NativeMessages(t)
  /\ pc = "start"
  /\ callNo = 1
  /\ errors = <<>>
  /\ errorPositions = {}
  /\ reported = <<>>
  /\ consulted = {}
  /\ result = NoResult
  /\ validation = NoValidation
  /\ tree = <<>>
  /\ priorResult = NoResult
  /\ priorTree = <<>>

\* the store as the module's top-level declarations leave it
StoreInit ==
  /\ jsonText = <<>>
  /\ parseResult \in storeParseResults(<<>>)
  /\ treeData = <<>>
  /\ history = <<>>
  /\ historyIndex = -1

Init == (\E t \in Texts : EngineInit(t)) /\ StoreInit /\ TreeIdle /\ PageIdle

\* parseJson, lines 549-560: the empty-text return
ParseEmpty ==
  /\ pc = "start"
  /\ isBlank(text)
  /\ result' = EmptyResult
  /\ pc' = "done"
  /\ UNCHANGED <<text, native, callNo, errors, errorPositions, reported, consulted,
                 validation, tree, priorResult, priorTree>>
  /\ UNCHANGED <<storeVars, treeVars, pageVars>>

\* parseJson running the analyzer whatever JSON.parse answered
ParseDecodedAnalyzing(r) ==
  /\ consulted' = consulted \cup {"decoder"}
  /\ errors' = NewAnalyzer.errors
  /\ errorPositions' = NewAnalyzer.errorPositions
  /\ reported' = <<>>
  /\ pc' = "analyze"
  /\ UNCHANGED result

\* parseJson once JSON.parse has answered r
ParseDecoded(r) ==
  /\ consulted' = consulted \cup {"decoder"}
  /\ IF r.ok
     THEN /\ result' = ValidResult(r.val)
          /\ pc' = "done"
          /\ UNCHANGED <<errors, errorPositions, reported>>
     ELSE /\ errors' = NewAnalyzer.errors
          /\ errorPositions' = NewAnalyzer.errorPositions
          /\ reported' = <<>>
          /\ pc' = "analyze"
          /\ UNCHANGED result

\* parseJson, lines 562-571: JSON.parse returns the value, or throws and the
\* catch block constructs an analyzer whose analyze() clears its fields
ParseNonEmpty ==
  /\ pc = "start"
  /\ ~isBlank(text)
  /\ ParseDecoded(JSONparse(text))
  /\ UNCHANGED <<text, native, callNo, validation, tree, priorResult, priorTree>>
  /\ UNCHANGED <<storeVars, treeVars, pageVars>>

\* the analyzer after the addError calls of one diagnoser
Admitted(an, calls) ==
  /\ errors' = an.errors
  /\ errorPositions' = an.errorPositions
  /\ reported' = reported \o calls

Admit(calls) ==
  Admitted(addErrors([errors |-> errors, errorPositions |-> errorPositions], calls),
           calls)

\* analyze(), step 1
PatternAnalysis ==
  /\ pc = "analyze"
  /\ Admit(performPatternAnalysis(text))
  /\ consulted' = consulted \cup {"pattern"}
  /\ pc' = "pattern"
  /\ UNCHANGED <<text, native, callNo, result, validation, tree, priorResult,
                 priorTree>>
  /\ UNCHANGED <<storeVars, treeVars, pageVars>>

\* analyze(), step 2
CommaAnalysis ==
  /\ pc = "pattern"
  /\ Admit(performCommaAnalysis(text))
  /\ consulted' = consulted \cup {"comma"}
  /\ pc' = "comma"
  /\ UNCHANGED <<text, native, callNo, result, validation, tree, priorResult,
                 priorTree>>
  /\ UNCHANGED <<storeVars, treeVars, pageVars>>

Mapped(mapped) ==
  /\ Admit(mapped.calls)
  /\ pc' = IF mapped.threw THEN "threw" ELSE "mapped"

\* analyze(), step 3
JsonParseErrorMapping ==
  /\ pc = "comma"
  /\ Mapped(performJsonParseErrorMapping(text, native))
  /\ consulted' = consulted \cup {"mapper"}
  /\ UNCHANGED <<text, native, callNo, result, validation, tree, priorResult,
                 priorTree>>
  /\ UNCHANGED <<storeVars, treeVars, pageVars>>

\* analyze() returns removeDuplicateAndSort(); parseJson, lines 573-582
ReturnInvalid ==
  /\ pc = "mapped"
  /\ result' = InvalidResult(removeDuplicateAndSort(errors), native)
  /\ pc' = "done"
  /\ UNCHANGED <<text, native, callNo, errors, errorPositions, reported, consulted,
                 validation, tree, priorResult, priorTree>>
  /\ UNCHANGED <<storeVars, treeVars, pageVars>>

\* validateJson, lines 589-595, once its parseJson call has returned
ValidateJson ==
  /\ pc = "done"
  /\ validation = NoValidation
  /\ validation' = validateJson(result)
  /\ UNCHANGED <<text, native, pc, callNo, errors, errorPositions, reported,
                 consulted, result, tree, priorResult, priorTree>>
  /\ UNCHANGED <<storeVars, treeVars, pageVars>>

\* generateTree on the decoded value
GenerateTree ==
  /\ pc = "done"
  /\ result.isValid
  /\ tree = <<>>
  /\ \E ids \in [1..nodeCount(result.data) -> IdSpace] :
       tree' = generateTree(result.data, ids)
  /\ UNCHANGED <<text, native, pc, callNo, errors, errorPositions, reported,
                 consulted, result, validation, priorResult, priorTree>>
  /\ UNCHANGED <<storeVars, treeVars, pageVars>>

\* the same calls once more on the same text
CallAgain ==
  /\ pc = "done"
  /\ callNo = 1
  /\ validation # NoValidation
  /\ result.isValid => tree # <<>>
  /\ priorResult' = result
  /\ priorTree' = tree
  /\ result' = NoResult
  /\ validation' = NoValidation
  /\ tree' = <<>>
  /\ consulted' = {}
  /\ callNo' = 2
  /\ pc' = "start"
  /\ UNCHANGED <<text, native, errors, errorPositions, reported>>
  /\ UNCHANGED <<storeVars, treeVars, pageVars>>

Next ==
  \/ ParseEmpty
  \/ ParseNonEmpty
  \/ PatternAnalysis
  \/ CommaAnalysis
  \/ JsonParseErrorMapping
  \/ ReturnInvalid
  \/ ValidateJson
  \/ GenerateTree
  \/ CallAgain

Spec == Init /\ [][Next]_vars

\* ------------------------------------------------------------------------
\* The application: the store's actions, each followed by the recomputation
\* of the values derived from jsonText
\* ------------------------------------------------------------------------
AppInit == (\E t \in {<<>>} : EngineInit(t)) /\ StoreInit /\ TreeIdle /\ PageIdle

\* parseResult and treeData after jsonText has become jt
Derive(jt) ==
  /\ parseResult' \in storeParseResults(jt)
  /\ treeData' \in storeTreeDatas(parseResult')

\* history.push(text) with the cap, when text differs from the last entry
Remember(t, pushed) ==
  IF history = <<>> \/ t # history[Len(history)]
  THEN /\ history' = pushed
       /\ historyIndex' = Len(pushed) - 1
  ELSE UNCHANGED <<history, historyIndex>>

updateJsonText(t) ==
  /\ jsonText' = t
  /\ Remember(t, capHistory(Append(history, t)))
  /\ Derive(t)

UpdateJsonText ==
  /\ \E t \in AppTexts \ {<<>>} : updateJsonText(t)
  /\ UNCHANGED <<engineVars, treeVars, pageVars>>

clearJson ==
  /\ updateJsonText(<<>>)
  /\ UNCHANGED <<engineVars, treeVars, pageVars>>

\* jsonText = history[historyIndex] after the index has moved to i
Revisit(i) ==
  /\ historyIndex' = i
  /\ jsonText' = history[i + 1]
  /\ Derive(history[i + 1])
  /\ UNCHANGED history

undo ==
  /\ historyIndex > 0
  /\ Revisit(historyIndex - 1)
  /\ UNCHANGED <<engineVars, treeVars, pageVars>>

redo ==
  /\ historyIndex < Len(history) - 1
  /\ Revisit(historyIndex + 1)
  /\ UNCHANGED <<engineVars, treeVars, pageVars>>

AppNext ==
  \/ UpdateJsonText
  \/ clearJson
  \/ undo
  \/ redo

AppSpec == AppInit /\ [][AppNext]_vars

\* ------------------------------------------------------------------------
\* A caller of the tree operations (tree-generator.ts)
\* ------------------------------------------------------------------------
\* the decoded texts whose trees the operations are applied to
TreeTexts ==
  {<<"{", "\"", "x", "\"", ":", "[", "1", "]", "}">>,
   <<"{", "\"", "A", "\"", ":", "\"", "b", "\"", ",", "\"", "n", "\"", ":", "n", "u", "l", "l", "}">>,
   <<"{", "\"", "-", "\"", ":", "{", "\"", "-", "\"", ":", "1", "}", ",", "\"", "-", "\\", "\"", "]", "[", "\\", "\"", "-", "\"", ":", "2", "}">>,
   <<"[", "[", "1", ".", "5", "]", "]">>,
   <<"\"", "a", ":", "b", "\"">>}

\* the queries searchTree is called with
SearchQueries ==
  {<<>>, <<"a">>, <<"B">>, <<"1">>, <<"n", "u", "l", "l">>, <<"\"">>}

\* paths that no node of the trees has
AbsentPaths == {<<>>, <<"$", ".", "y">>}

\* the forests generateTree returns for the decoded texts
TreeInit ==
  /\ \E t \in {<<>>} : EngineInit(t)
  /\ StoreInit
  /\ \E t \in TreeTexts :
       \E ids \in [1..nodeCount(JSONparse(t).val) -> IdSpace] :
         forest = generateTree(JSONparse(t).val, ids)
  /\ treeOp = NoOp
  /\ PageIdle

\* the node the operation before was given, when it was toggleNodeExpansion
\* on the node at at
toggledBefore(o, at) ==
  IF o.op = "toggleNodeExpansion" /\ o.at = at THEN o.node ELSE NoNode

\* toggleNodeExpansion on the at-th node; the caller puts the returned node
\* in its place
Toggled(at, call) ==
  /\ treeOp' = [op |-> "toggleNodeExpansion", at |-> at,
                node |-> nodeAt(forest, at),
                returned |-> call.returned,
                nodeAfter |-> call.node,
                original |-> toggledBefore(treeOp, at)]
  /\ forest' = replaceNode(forest, at, call.returned)

ToggleNodeExpansion ==
  /\ \E at \in 1..forestSize(forest) :
       Toggled(at, toggleNodeExpansion(nodeAt(forest, at)))
  /\ UNCHANGED <<engineVars, storeVars, pageVars>>

\* toggleAllNodes on the forest; the caller keeps the returned forest
ToggleAllNodes ==
  /\ \E expanded \in BOOLEAN :
       /\ treeOp' = [op |-> "toggleAllNodes", expanded |-> expanded,
                     nodes |-> forest,
                     returned |-> toggleAllNodes(forest, expanded),
                     afterExpandAll |-> treeOp.op = "toggleAllNodes"
                                          /\ treeOp.expanded]
       /\ forest' = toggleAllNodes(forest, expanded)
  /\ UNCHANGED <<engineVars, storeVars, pageVars>>

GetTreeStats ==
  /\ treeOp' = [op |-> "getTreeStats", returned |-> getTreeStats(forest)]
  /\ UNCHANGED <<forest, engineVars, storeVars, pageVars>>

SearchTree ==
  /\ \E query \in SearchQueries, caseSensitive \in BOOLEAN :
       treeOp' = [op |-> "searchTree", query |-> query,
                  caseSensitive |-> caseSensitive,
                  returned |-> searchTree(forest, query, caseSensitive)]
  /\ UNCHANGED <<forest, engineVars, storeVars, pageVars>>

FindNodeByPath ==
  /\ \E path \in {nodeAt(forest, j).path : j \in 1..forestSize(forest)}
                 \cup AbsentPaths :
       treeOp' = [op |-> "findNodeByPath", path |-> path,
                  returned |-> findNodeByPath(forest, path)]
  /\ UNCHANGED <<forest, engineVars, storeVars, pageVars>>

TreeNext ==
  \/ ToggleNodeExpansion
  \/ ToggleAllNodes
  \/ GetTreeStats
  \/ SearchTree
  \/ FindNodeByPath

TreeSpec == TreeInit /\ [][TreeNext]_vars

\* ------------------------------------------------------------------------
\* A caller of the Position Mapper (json-parser.ts, indexToLineColumn)
\* ------------------------------------------------------------------------
\* how far past the end of the text the offsets go
MaxBeyond == 2

\* the lines the located texts are made of
PositionLines == {<<>>, <<"a">>, <<"a", "b">>}

\* the texts of n lines
RECURSIVE positionTexts(_)
positionTexts(n) ==
  IF n <= 1 THEN PositionLines
  ELSE {t \o <<"\n">> \o l : t \in positionTexts(n - 1), l \in PositionLines}

PositionInit ==
  /\ \E n \in 1..(MaxLines + 1) : \E t \in positionTexts(n) : EngineInit(t)
  /\ StoreInit
  /\ TreeIdle
  /\ PageIdle

IndexToLineColumn ==
  /\ \E offset \in 0..(Len(text) + MaxBeyond) :
       located' = [offset |-> offset, returned |-> indexToLineColumn(text, offset)]
  /\ UNCHANGED <<engineVars, storeVars, treeVars, expandedNodes>>

PositionNext == IndexToLineColumn

PositionSpec == PositionInit /\ [][PositionNext]_vars

\* ------------------------------------------------------------------------
\* The tree view of the page (+page.svelte)
\* ------------------------------------------------------------------------
\* parentKey ? `${parentKey}.${node.key}` : node.key
getNodeKey(node, parentKey) ==
  IF parentKey # <<>> THEN parentKey \o <<".">> \o node.key ELSE node.key

\* the rows of the TreeNode snippet for every node in depth-first pre-order:
\* its nodeKey, isExpanded and hasChildren, and whether the row is rendered
RECURSIVE treeRows(_, _, _, _)
RECURSIVE treeRow(_, _, _, _)
treeRow(node, nodeKey, expanded, shown) ==
  <<[nodeKey |-> nodeKey,
     isExpanded |-> nodeKey \in expanded,
     hasChildren |-> Len(node.children) > 0,
     shown |-> shown]>>
  \o treeRows(node.children, nodeKey, expanded, shown /\ nodeKey \in expanded)

treeRows(nodes, parentKey, expanded, shown) ==
  IF nodes = <<>> THEN <<>>
  ELSE treeRow(Head(nodes), getNodeKey(Head(nodes), parentKey), expanded, shown)
       \o treeRows(Tail(nodes), parentKey, expanded, shown)

\* the keys of the top-level nodes that have children
firstLevelKeys(nodes) ==
  {nodes[j].key : j \in {i \in 1..Len(nodes) : Len(nodes[i].children) > 0}}

\* expandAll: the node keys collectKeys adds
allKeys(rows) == {rows[j].nodeKey : j \in {i \in 1..Len(rows) : rows[i].hasChildren}}

\* toggleNode(nodeKey): the new Set
toggleNode(expanded, nodeKey) ==
  IF nodeKey \in expanded THEN expanded \ {nodeKey} ELSE expanded \cup {nodeKey}

\* the decoded texts whose trees the page shows
ViewTexts ==
  {<<"{", "\"", "a", "\"", ":", "{", "\"", "b", "\"", ":", "[", "1", "]", "}", ",", "\"", "a", ".", "b", "\"", ":", "[", "2", "]", "}">>,
   <<"{", "\"", "x", "\"", ":", "[", "1", "]", "}">>,
   <<"[", "[", "1", ".", "5", "]", "]">>}

\* the page with the tree of a decoded text, before the tree view is opened
ViewInit ==
  /\ \E t \in {<<>>} : EngineInit(t)
  /\ StoreInit
  /\ \E t \in ViewTexts :
       \E ids \in [1..nodeCount(JSONparse(t).val) -> IdSpace] :
         forest = generateTree(JSONparse(t).val, ids)
  /\ treeOp = NoOp
  /\ PageIdle

\* $effect: the tree view is opened and the first level expanded
ShowTree ==
  /\ expandedNodes' = firstLevelKeys(forest)
  /\ treeOp' = [op |-> "showTree"]
  /\ UNCHANGED <<forest, located, engineVars, storeVars>>

\* a click on a rendered row that has children
Clicked(rows) ==
  \E at \in 1..Len(rows) :
    /\ rows[at].shown
    /\ rows[at].hasChildren
    /\ expandedNodes' = toggleNode(expandedNodes, rows[at].nodeKey)
    /\ treeOp' = [op |-> "toggleNode", at |-> at, before |-> expandedNodes]

ToggleNode ==
  /\ Clicked(treeRows(forest, <<>>, expandedNodes, TRUE))
  /\ UNCHANGED <<forest, located, engineVars, storeVars>>

ExpandAll ==
  /\ expandedNodes' = allKeys(treeRows(forest, <<>>, expandedNodes, TRUE))
  /\ treeOp' = [op |-> "expandAll"]
  /\ UNCHANGED <<forest, located, engineVars, storeVars>>

CollapseAll ==
  /\ expandedNodes' = {}
  /\ treeOp' = [op |-> "collapseAll"]
  /\ UNCHANGED <<forest, located, engineVars, storeVars>>

ViewNext ==
  \/ ShowTree
  \/ ToggleNode
  \/ ExpandAll
  \/ CollapseAll

ViewSpec == ViewInit /\ [][ViewNext]_vars

\* ------------------------------------------------------------------------
\* Properties of the engine (Spec) and of the application (AppSpec)
\* ------------------------------------------------------------------------
\* the current parseJson call has returned
Returned == pc = "done"

\* the text is empty or white space only
Blank == trim(text) = <<>>

\* the text is not blank and the decoder rejects it
Rejected == ~Blank /\ ~JSONparse(text).ok

\* the diagnostic d has a line, a column and an offset
hasPosition(d) == {"line", "column", "index"} \subseteq DOMAIN d

\* the offsets of the addError calls made so far
reportedOffsets == {reported[i].position.index : i \in 1..Len(reported)}

\* the first addError call made at the offset x
firstReport(x) ==
  reported[Minimum({i \in 1..Len(reported) : reported[i].position.index = x})]

\* a tree with every node's id blanked
RECURSIVE withoutIds(_)
withoutIds(nodes) ==
  [j \in 1..Len(nodes) |->
     [nodes[j] EXCEPT !.id = 0, !.children = withoutIds(nodes[j].children)]]

\* C1: for a text the decoder accepts, parseJson returns isValid = true, the
\* decoded value as data and no diagnostics, and runs no diagnoser
C1_AcceptedTextIsValid ==
  (Returned /\ JSONparse(text).ok) =>
    /\ result.isValid = TRUE
    /\ result.data = JSONparse(text).val
    /\ result.errors = <<>>
    /\ consulted = {"decoder"}

\* an accepted text the Pattern Diagnoser has something to say about
C1_Witness ==
  /\ Returned
  /\ JSONparse(text).ok
  /\ performPatternAnalysis(text) # <<>>
  /\ result.isValid

\* C2: for a rejected text that is not blank, parseJson returns isValid =
\* false, data = null and at least one diagnostic; when the analyzer admitted
\* nothing, the one diagnostic is the generic SYNTAX_ERROR with the decoder's
\* message
C2_RejectedTextHasDiagnostics ==
  (Returned /\ Rejected) =>
    /\ result.isValid = FALSE
    /\ result.data = JNull
    /\ Len(result.errors) >= 1
    /\ errors = <<>> =>
         /\ Len(result.errors) = 1
         /\ result.errors[1].code = "SYNTAX_ERROR"
         /\ result.errors[1].message.native = native

\* a rejected text for which the three diagnosers admitted nothing
C2_Witness ==
  /\ Returned
  /\ Rejected
  /\ consulted = {"decoder", "pattern", "comma", "mapper"}
  /\ errors = <<>>
  /\ Len(result.errors) = 1

\* C3: the diagnostics returned for a rejected text ascend by (line, column),
\* and two that compare equal are in the order the analyzer admitted them
C3_SortedByLineColumn ==
  (Returned /\ Rejected /\ errors # <<>>) =>
    \A i, j \in 1..Len(result.errors) :
      i < j =>
        /\ compareErrors(result.errors[i], result.errors[j]) <= 0
        /\ compareErrors(result.errors[i], result.errors[j]) = 0 =>
             \E k, l \in 1..Len(errors) :
               /\ k < l
               /\ errors[k] = result.errors[i]
               /\ errors[l] = result.errors[j]

\* the analyzer admitted a later position before an earlier one
C3_Witness ==
  /\ Returned
  /\ Rejected
  /\ \E k, l \in 1..Len(errors) : k < l /\ compareErrors(errors[k], errors[l]) > 0
  /\ Len(result.errors) = Len(errors)

\* C4: no two admitted diagnostics share an offset, each admitted diagnostic
\* is the first one reported at its offset, and no two returned diagnostics
\* share (line, offset)
C4_OneDiagnosticPerOffset ==
  /\ \A i, j \in 1..Len(errors) : errors[i].index = errors[j].index => i = j
  /\ \A i \in 1..Len(errors) :
       errors[i] = Diagnostic(firstReport(errors[i].index).type,
                              firstReport(errors[i].index).message,
                              firstReport(errors[i].index).position)
  /\ (Returned /\ Rejected /\ errors # <<>>) =>
       \A i, j \in 1..Len(result.errors) :
         (/\ result.errors[i].line = result.errors[j].line
          /\ result.errors[i].index = result.errors[j].index) => i = j

\* a second report at an admitted offset was dropped, below the cap
C4_Witness ==
  /\ Returned
  /\ Len(errors) < maxErrors
  /\ Len(reported) > Len(errors)
  /\ \E i, j \in 1..Len(reported) :
       /\ i < j
       /\ reported[i].position.index = reported[j].position.index
       /\ reported[i].message # reported[j].message

\* C5: parseJson returns at most 15 diagnostics and the analyzer never holds
\* more
C5_AtMostMaxErrors ==
  /\ Len(errors) <= 15
  /\ Returned => Len(result.errors) <= 15

\* more than 15 offsets were reported and 15 diagnostics were returned
C5_Witness ==
  /\ Returned
  /\ Cardinality(reportedOffsets) > 15
  /\ Len(result.errors) = 15

\* C6: for a blank text parseJson returns isValid = false and exactly one
\* diagnostic, UNEXPECTED_END without line, column and offset, and consults
\* neither the decoder nor a diagnoser
C6_BlankTextIsUnexpectedEnd ==
  (Returned /\ Blank) =>
    /\ result.isValid = FALSE
    /\ Len(result.errors) = 1
    /\ result.errors[1].code = "UNEXPECTED_END"
    /\ DOMAIN result.errors[1] \cap {"line", "column", "index"} = {}
    /\ consulted = {}

\* a text of white space only has been answered
C6_Witness ==
  /\ Returned
  /\ Blank
  /\ text # <<>>
  /\ result.errors # <<>>

\* C7: whenever the application's parseResult is not valid, it has at least
\* one diagnostic
C7_InvalidParseResultHasDiagnostic ==
  ~parseResult.isValid => parseResult.errors # <<>>

\* C8: no exception leaves parseJson, which returns a result, and validateJson
\* returns that result's isValid and errors
C8_NeverThrows ==
  /\ pc # "threw"
  /\ Returned => result # NoResult /\ result.isValid \in BOOLEAN
  /\ validation # NoValidation =>
       validation = [isValid |-> result.isValid, errors |-> result.errors]

\* validateJson has answered for a rejected text whose SyntaxError the
\* Native-Parse Mapper caught
C8_Witness ==
  /\ Returned
  /\ Rejected
  /\ "mapper" \in consulted
  /\ validation # NoValidation
  /\ ~validation.isValid

\* C9: every diagnostic returned for a text that is not blank has a line, a
\* column and an offset
C9_DiagnosticsHavePosition ==
  (Returned /\ ~Blank) =>
    \A i \in 1..Len(result.errors) : hasPosition(result.errors[i])

\* C10 as stated: the second parseJson and the second generateTree return what
\* the first returned, every field of every tree node included
C10_SecondCallIdentical ==
  (callNo = 2 /\ Returned) =>
    /\ result = priorResult
    /\ tree # <<>> => tree = priorTree

\* C10: the second parseJson returns what the first returned, and the second
\* generateTree returns the first one's tree up to the nodes' ids
C10_SecondCallIdenticalUpToIds ==
  (callNo = 2 /\ Returned) =>
    /\ result = priorResult
    /\ tree # <<>> => withoutIds(tree) = withoutIds(priorTree)

\* both rounds built a tree and the two differ
C10_Witness ==
  /\ callNo = 2
  /\ Returned
  /\ tree # <<>>
  /\ tree # priorTree
  /\ result = priorResult

\* the decoder rejects the text at a closing brace or bracket that directly
\* follows a comma
TrailingComma ==
  /\ ~JSONparse(text).ok
  /\ JSONparse(text).at >= 1
  /\ JSONparse(text).at < Len(text)
  /\ text[JSONparse(text).at + 1] \in {"}", "]"}
  /\ text[JSONparse(text).at] = ","

\* C11: for a text with a comma directly before the closing brace or bracket,
\* parseJson returns isValid = false and a TRAILING_COMMA or SYNTAX_ERROR
\* diagnostic whose offset is that of the comma
C11_TrailingCommaAtComma ==
  (Returned /\ TrailingComma) =>
    /\ ~result.isValid
    /\ \E i \in 1..Len(result.errors) :
         /\ result.errors[i].code \in {"TRAILING_COMMA", "SYNTAX_ERROR"}
         /\ hasPosition(result.errors[i])
         /\ result.errors[i].index = JSONparse(text).at - 1

\* the offset of the first character of the line at the 0-based index li
RECURSIVE offsetOfLine(_, _)
offsetOfLine(lines, li) ==
  IF li = 0 THEN 0 ELSE offsetOfLine(lines, li - 1) + Len(lines[li]) + 1

\* the offset in the line of the first character after the first colon that
\* is not white space
valueOffset(line) == skipWs(line, indexOf(line, <<":">>, 0) + 2) - 1

\* what follows the first colon opens a double quote and has no other
unterminatedValue(line) ==
  /\ includes(line, <<":">>)
  /\ valueOffset(line) < Len(line)
  /\ line[valueOffset(line) + 1] = "\""
  /\ \A i \in (valueOffset(line) + 2)..Len(line) : line[i] # "\""

\* C12: for every key-value line whose value opens a double quote and does
\* not close it, the diagnostics include an UNTERMINATED_STRING at the line,
\* column and offset of the value's opening quote
C12_UnterminatedValueAtOpeningQuote ==
  (Returned /\ Rejected) =>
    \A li \in 0..(Len(split(text)) - 1) :
      unterminatedValue(split(text)[li + 1]) =>
        \E i \in 1..Len(result.errors) :
          /\ result.errors[i].code = "UNTERMINATED_STRING"
          /\ hasPosition(result.errors[i])
          /\ result.errors[i].line = li + 1
          /\ result.errors[i].column = valueOffset(split(text)[li + 1]) + 1
          /\ result.errors[i].index =
               offsetOfLine(split(text), li) + valueOffset(split(text)[li + 1])

\* the line ends in a comma or opens an object or an array
endsInCommaOrOpener(line) == line # <<>> /\ line[Len(line)] \in {",", "{", "["}

\* the position of the last character of the line at the 0-based index li
lastCharacter(lines, li) ==
  [line |-> li + 1,
   column |-> Len(lines[li + 1]),
   index |-> offsetOfLine(lines, li) + Len(lines[li + 1]) - 1]

\* the line at li and the next are value-bearing and the first, trimmed, does
\* not end in a comma or an opener
lacksComma(lines, li) ==
  /\ isValueLine(trim(lines[li + 1]))
  /\ isValueLine(trim(lines[li + 2]))
  /\ ~endsInCommaOrOpener(trim(lines[li + 1]))

\* the last characters of the first lines of the pairs from li on
RECURSIVE lackingFrom(_, _)
lackingFrom(lines, li) ==
  IF li > Len(lines) - 2 THEN <<>>
  ELSE (IF lacksComma(lines, li) THEN <<lastCharacter(lines, li)>> ELSE <<>>)
       \o lackingFrom(lines, li + 1)

\* the positions of the reports of a missing comma between two lines
RECURSIVE missingCommaReports(_)
missingCommaReports(calls) ==
  IF calls = <<>> THEN <<>>
  ELSE (IF /\ Head(calls).type = "SYNTAX_ERROR"
           /\ Head(calls).message.detail = "comma missing"
        THEN <<Head(calls).position>> ELSE <<>>)
       \o missingCommaReports(Tail(calls))

RECURSIVE preOrder(_)
preOrder(nodes) ==
  IF nodes = <<>> THEN <<>>
  ELSE <<Head(nodes)>> \o preOrder(Head(nodes).children) \o preOrder(Tail(nodes))

\* the paths of the nodes of a forest in depth-first pre-order
pathsOf(nodes) == [j \in 1..Len(preOrder(nodes)) |-> preOrder(nodes)[j].path]

\* the path of the j-th child of a node, by the rule of the three cases
childPath(node, j) ==
  IF node.type = "array"
  THEN node.path \o <<"[">> \o intToString(j - 1) \o <<"]">>
  ELSE IF isIdentifierKey(node.children[j].key)
  THEN node.path \o <<".">> \o node.children[j].key
  ELSE node.path \o <<"[", "\"">> \o node.children[j].key \o <<"\"", "]">>

\* every descendant's path is its parent's path extended by the rule
RECURSIVE pathsFollowRule(_)
pathsFollowRule(node) ==
  \A j \in 1..Len(node.children) :
    /\ node.children[j].path = childPath(node, j)
    /\ pathsFollowRule(node.children[j])

\* C14: in every tree of generateTree the root's path is '$', an array child
\* at index i has path parentPath[i], and an object child keyed k has path
\* parentPath.k when k is identifier-safe and parentPath["k"] otherwise
C14_PathsFollowRule ==
  tree # <<>> =>
    /\ Len(tree) = 1
    /\ tree[1].path = <<"$">>
    /\ pathsFollowRule(tree[1])

\* the tree of {"a b":[{},1],"c":[]}: a key that is not identifier-safe, an
\* array element and an identifier-safe key
C14_Witness ==
  /\ tree # <<>>
  /\ pathsOf(tree) = << <<"$">>,
                        <<"$", "[", "\"", "a", " ", "b", "\"", "]">>,
                        <<"$", "[", "\"", "a", " ", "b", "\"", "]", "[", "0", "]">>,
                        <<"$", "[", "\"", "a", " ", "b", "\"", "]", "[", "1", "]">>,
                        <<"$", ".", "c">> >>

\* the text of the step from a container to its j-th member, in a path
segment(value, j) ==
  IF value.type = "array" THEN <<"[">> \o intToString(j - 1) \o <<"]">>
  ELSE IF isIdentifierKey(value.keys[j]) THEN <<".">> \o value.keys[j]
  ELSE <<"[", "\"">> \o value.keys[j] \o <<"\"", "]">>

\* the values reached from value by the steps that path spells from the
\* 0-based offset i on: a dot step or a quoted bracket step selects the member
\* of an object with that key, a numeric bracket step the element of an array
RECURSIVE resolveFrom(_, _, _)
resolveFrom(value, path, i) ==
  IF i >= Len(path) THEN {value}
  ELSE UNION {IF occursAt(path, segment(value, j), i)
              THEN resolveFrom(childValues(value)[j], path,
                               i + Len(segment(value, j)))
              ELSE {} : j \in 1..Len(childValues(value))}

\* the values that resolving path against value reaches
resolve(value, path) ==
  IF path = <<>> \/ path[1] # "$" THEN {} ELSE resolveFrom(value, path, 1)

soleAddress(nodes, j) ==
  \A k \in 1..Len(preOrder(nodes)) :
    preOrder(nodes)[k].path = preOrder(nodes)[j].path => k = j

\* the childless node holds what its path resolves to, an empty container
\* standing as null
holdsResolved(data, nodes, j) ==
  IF preOrder(nodes)[j].type \in {"object", "array"}
  THEN /\ preOrder(nodes)[j].value = JNull
       /\ \E w \in resolve(data, preOrder(nodes)[j].path) :
            w.type = preOrder(nodes)[j].type /\ childValues(w) = <<>>
  ELSE /\ preOrder(nodes)[j].value \in resolve(data, preOrder(nodes)[j].path)
       /\ soleAddress(nodes, j) =>
            resolve(data, preOrder(nodes)[j].path) = {preOrder(nodes)[j].value}

positions == 1..forestSize(forest)

\* C16: findNodeByPath(tree, n.path) returns n itself for every node n of the
\* tree, no two nodes of the tree have the same path, and findNodeByPath
\* returns null for a path that no node has
C16_FindNodeByPathReturnsTheNode ==
  treeOp.op = "findNodeByPath" =>
    /\ \A j \in positions :
         nodeAt(forest, j).path = treeOp.path => treeOp.returned = nodeAt(forest, j)
    /\ (\A j \in positions : nodeAt(forest, j).path # treeOp.path)
         => treeOp.returned = NoNode
    /\ \A j, k \in positions :
         nodeAt(forest, j).path = nodeAt(forest, k).path => j = k

\* returned has the shape of nodes, every node with the flag expanded and
\* with the id, key, value, type, path and depth of the node in its place
RECURSIVE sameButExpanded(_, _, _)
sameButExpanded(nodes, returned, expanded) ==
  /\ Len(returned) = Len(nodes)
  /\ \A j \in 1..Len(nodes) :
       /\ returned[j].expanded = expanded
       /\ [returned[j] EXCEPT !.expanded = nodes[j].expanded,
                              !.children = nodes[j].children] = nodes[j]
       /\ sameButExpanded(nodes[j].children, returned[j].children, expanded)

\* C17: toggleAllNodes(nodes, e) returns a forest of the same shape in which
\* every node has expanded = e and every other field is unchanged; after
\* toggleAllNodes(.., true) then toggleAllNodes(.., false) every node has
\* expanded = false
C17_ToggleAllSetsEveryNode ==
  treeOp.op = "toggleAllNodes" =>
    /\ sameButExpanded(treeOp.nodes, treeOp.returned, treeOp.expanded)
    /\ (treeOp.afterExpandAll /\ ~treeOp.expanded) =>
         \A j \in 1..forestSize(treeOp.returned) :
           ~nodeAt(treeOp.returned, j).expanded

\* toggleAllNodes was given a forest of at least three nodes, some expanded
\* and some collapsed, one of them below the top level
C17_Witness ==
  /\ treeOp.op = "toggleAllNodes"
  /\ forestSize(treeOp.nodes) >= 3
  /\ \E j, k \in 2..forestSize(treeOp.nodes) :
       nodeAt(treeOp.nodes, j).expanded /\ ~nodeAt(treeOp.nodes, k).expanded

\* C18: toggleNodeExpansion(node) returns a node with expanded negated and
\* every other field, the children included, equal to node's; node itself is
\* left as it was; applied twice it gives back the original expanded value
C18_ToggleNodeExpansionNegates ==
  treeOp.op = "toggleNodeExpansion" =>
    /\ treeOp.returned.expanded = ~treeOp.node.expanded
    /\ [treeOp.returned EXCEPT !.expanded = treeOp.node.expanded] = treeOp.node
    /\ treeOp.nodeAfter = treeOp.node
    /\ treeOp.original # NoNode =>
         treeOp.returned.expanded = treeOp.original.expanded

\* toggleNodeExpansion was applied to a node with children and then to the
\* node it returned
C18_Witness ==
  /\ treeOp.op = "toggleNodeExpansion"
  /\ treeOp.original # NoNode
  /\ treeOp.node.children # <<>>
  /\ treeOp.returned = treeOp.original

\* the largest depth of a node of the forest, 0 for the empty forest
largestDepth(nodes) ==
  IF nodes = <<>> THEN 0
  ELSE CHOOSE d \in {nodeAt(nodes, j).depth : j \in 1..forestSize(nodes)} :
         \A j \in 1..forestSize(nodes) : nodeAt(nodes, j).depth <= d

\* C19: getTreeStats(nodes).leafNodes is the number of nodes with no children
\* at any depth, totalNodes the number of nodes, maxDepth the largest depth
C19_LeafNodesCountsChildlessNodes ==
  treeOp.op = "getTreeStats" =>
    /\ treeOp.returned.leafNodes =
         Cardinality({j \in positions : nodeAt(forest, j).children = <<>>})
    /\ treeOp.returned.totalNodes = forestSize(forest)
    /\ treeOp.returned.maxDepth = largestDepth(forest)

\* q occurs in s, letter case counting or not
contains(s, q, caseSensitive) ==
  \E i \in 0..(Len(s) - Len(q)) :
    \A k \in 1..Len(q) :
      IF caseSensitive THEN s[i + k] = q[k]
      ELSE lowerChar(s[i + k]) = lowerChar(q[k])

\* the nodes of the sequence whose key or rendered value contains q
RECURSIVE selectContaining(_, _, _)
selectContaining(nodes, q, caseSensitive) ==
  IF nodes = <<>> THEN <<>>
  ELSE (IF \/ contains(Head(nodes).key, q, caseSensitive)
           \/ contains(valueToString(Head(nodes).value), q, caseSensitive)
        THEN <<Head(nodes)>> ELSE <<>>)
       \o selectContaining(Tail(nodes), q, caseSensitive)

\* C20: searchTree returns, in depth-first pre-order and once each, exactly
\* the nodes whose key or whose value's string rendering contains the query,
\* ignoring letter case unless caseSensitive is true
C20_SearchReturnsMatchesInPreOrder ==
  treeOp.op = "searchTree" =>
    treeOp.returned =
      selectContaining(preOrder(forest), treeOp.query, treeOp.caseSensitive)

\* a search for "a" ignoring case returned the node keyed "A" and not the root
C20_Witness ==
  /\ treeOp.op = "searchTree"
  /\ ~treeOp.caseSensitive
  /\ treeOp.query = <<"a">>
  /\ Len(treeOp.returned) = 1
  /\ treeOp.returned[1].key = <<"A">>
  /\ forestSize(forest) = 3

\* ------------------------------------------------------------------------
\* Further properties of the engine, the store and the tree operations
\* ------------------------------------------------------------------------
\* C21: within the tree one generateTree call returns, no two nodes have the
\* same id
C21_NodeIdsDistinct ==
  tree # <<>> =>
    \A j, k \in 1..Len(preOrder(tree)) :
      preOrder(tree)[j].id = preOrder(tree)[k].id => j = k

\* the line, trimmed, is exactly '}' or ']'
closingLine(line) == trim(line) \in {<<"}">>, <<"]">>}

\* the trimmed line starts with a quote, a numeric character, true, false or
\* null, an opening brace or bracket or a letter, or contains a colon
startsValue(t) ==
  \/ includes(t, <<":">>)
  \/ /\ t # <<>>
     /\ t[1] \in {"\"", "{", "["} \cup Digits \cup {".", "-"} \cup Letters

\* a comma-only line is among the two lines after the line at li
commaOnlyWithinTwo(lines, li) ==
  \E k \in {li + 1, li + 2} : k < Len(lines) /\ trim(lines[k + 1]) = <<",">>

\* the Comma Diagnoser reported a missing comma at the position
commaReportAt(position) ==
  \E i \in 1..Len(reported) :
    /\ reported[i].type = "SYNTAX_ERROR"
    /\ reported[i].message.detail \in
         {"comma missing", "comma missing after end of object/array",
          "comma missing after object/array"}
    /\ reported[i].position = position

\* C23: for every line that is exactly '}' or ']' and is followed by a
\* value-bearing or key-value line, the Comma Diagnoser reports a SYNTAX_ERROR
\* at the end of the closing line unless a comma-only line is among the next
\* two lines; a closing line followed by a comma-only line gets no report
C23_MissingCommaAfterClosingLine ==
  "comma" \in consulted =>
    \A li \in 0..(Len(split(text)) - 2) :
      closingLine(split(text)[li + 1]) =>
        /\ startsValue(trim(split(text)[li + 2])) =>
             (commaReportAt(lastCharacter(split(text), li))
                <=> ~commaOnlyWithinTwo(split(text), li))
        /\ trim(split(text)[li + 2]) = <<",">> =>
             ~commaReportAt(lastCharacter(split(text), li))

\* the calls of the Native-Parse Mapper among the calls, in order
RECURSIVE mapperReports(_)
mapperReports(calls) ==
  IF calls = <<>> THEN <<>>
  ELSE (IF \/ Head(calls).message.detail = "comma missing on the previous line"
           \/ Head(calls).message.native # NoMessage
        THEN <<Head(calls)>> ELSE <<>>)
       \o mapperReports(Tail(calls))

\* the 0-based index of the line that holds the offset
lineOfOffset(t, offset) ==
  Cardinality({i \in 1..Min(offset, Len(t)) : t[i] = "\n"})

\* the 0-based indices of the value-bearing lines before the line at li
valueLinesBefore(lines, li) ==
  {k \in 0..(li - 1) : isValueLine(trim(lines[k + 1]))}

\* the largest element of a non-empty set of numbers
Maximum(S) == CHOOSE x \in S : \A y \in S : y <= x

\* the line, column and offset of the offset, counted over the text
positionOf(t, offset) ==
  [line |-> lineOfOffset(t, offset) + 1,
   column |-> offset - offsetOfLine(split(t), lineOfOffset(t, offset)) + 1,
   index |-> offset]

\* the one report the Mapper makes when it blames the line before
blamesLineBefore(lines, k) ==
  /\ Len(mapperReports(reported)) = 1
  /\ mapperReports(reported)[1].type = "SYNTAX_ERROR"
  /\ mapperReports(reported)[1].position = lastCharacter(lines, k)

\* the one report the Mapper makes at the decoder's offset
reportsAtOffset(t, m) ==
  /\ Len(mapperReports(reported)) = 1
  /\ mapperReports(reported)[1].type =
       (IF m.kind = "UnexpectedNumber" THEN "INVALID_NUMBER" ELSE "SYNTAX_ERROR")
  /\ mapperReports(reported)[1].position = positionOf(t, m.pos)
  /\ mapperReports(reported)[1].message.native = m

cleanValueOfLine(t) ==
  IF includes(t, <<":">>)
  THEN trim(stripTrailing(trim(substringFrom(t, indexOf(t, <<":">>, 0) + 1)),
                          {",", "}", "]"} \cup WhiteSpace))
  ELSE trim(stripTrailing(t, {","} \cup WhiteSpace))

\* the offset in the line at which its value starts
valueStart(line) ==
  IF includes(line, <<":">>) THEN valueOffset(line) ELSE skipWs(line, 1) - 1

\* the reports positioned in the line at li at or after the offset from
reportsInLineFrom(lines, li, from) ==
  {i \in 1..Len(reported) :
     /\ reported[i].position.line = li + 1
     /\ reported[i].position.column >= from + 1}

\* C25: for every non-structural line, key-value or bare value, whose clean
\* value has the loose numeric shape but is not a JSON number, the Pattern
\* Diagnoser reports INVALID_NUMBER at the value; a clean value that is a
\* valid number, true, false or null produces no diagnostic
C25_InvalidNumberReported ==
  pc = "pattern" =>
    \A li \in 0..(Len(split(text)) - 1) :
      (trim(split(text)[li + 1]) # <<>>
         /\ ~isStructuralLine(trim(split(text)[li + 1]))) =>
        /\ (looksLikeNumber(cleanValueOfLine(trim(split(text)[li + 1])))
              /\ ~isValidJsonNumber(cleanValueOfLine(trim(split(text)[li + 1])))) =>
             \E i \in reportsInLineFrom(split(text), li, 0) :
               /\ reported[i].type = "INVALID_NUMBER"
               /\ reported[i].position.column = valueStart(split(text)[li + 1]) + 1
               /\ reported[i].position.index =
                    offsetOfLine(split(text), li) + valueStart(split(text)[li + 1])
        /\ isJsonLiteral(cleanValueOfLine(trim(split(text)[li + 1]))) =>
             reportsInLineFrom(split(text), li, valueStart(split(text)[li + 1])) = {}

\* ------------------------------------------------------------------------
\* Properties of the Position Mapper (PositionSpec)
\* ------------------------------------------------------------------------
\* the number of newline characters among the first n characters of t
newlinesBefore(t, n) == Cardinality({i \in 1..Min(n, Len(t)) : t[i] = "\n"})

\* the 0-based index of the last newline among the first n characters of t,
\* -1 when there is none
lastNewlineBefore(t, n) ==
  IF newlinesBefore(t, n) = 0 THEN -1
  ELSE Maximum({i \in 1..Min(n, Len(t)) : t[i] = "\n"}) - 1

\* C26: for every offset >= 0, line = 1 + the newlines in text[0, offset) and
\* column = offset minus the index of the last newline before offset, both at
\* least 1; an offset past the end gives the line and column of the length
C26_LineAndColumnOfOffset ==
  located # NoPosition =>
    /\ located.returned.line = 1 + newlinesBefore(text, located.offset)
    /\ located.returned.column =
         located.offset - lastNewlineBefore(text, located.offset)
    /\ located.returned.line >= 1
    /\ located.returned.column >= 1
    /\ located.offset > Len(text) =>
         /\ located.returned.line = 1 + newlinesBefore(text, Len(text))
         /\ located.returned.column = Len(text) - lastNewlineBefore(text, Len(text))

\* C26, amended: the line and the column are those of the offset cut down to
\* the length of the text; the index returned is the offset given
C26_LineAndColumnOfClampedOffset ==
  located # NoPosition =>
    /\ located.returned.line =
         1 + newlinesBefore(text, Min(located.offset, Len(text)))
    /\ located.returned.column =
         Min(located.offset, Len(text))
           - lastNewlineBefore(text, Min(located.offset, Len(text)))
    /\ located.returned.line >= 1
    /\ located.returned.column >= 1
    /\ located.returned.index = located.offset

\* an offset past the end of a text of several lines was located
C26_Witness ==
  /\ located # NoPosition
  /\ located.offset > Len(text)
  /\ located.returned.line >= 2
  /\ located.returned.column >= 2

\* ------------------------------------------------------------------------
\* Further properties of the application store (AppSpec)
\* ------------------------------------------------------------------------
\* C22: whenever parseResult is valid, treeData is one root node that wraps
\* the decoded value, whatever the value is, and treeData is empty only when
\* decoding failed
C22_ValidResultHasOneRoot ==
  /\ parseResult.isValid =>
       /\ Len(treeData) = 1
       /\ treeData[1].key = <<"r", "o", "o", "t">>
       /\ treeData[1].type = getValueType(parseResult.data)
  /\ treeData = <<>> => ~parseResult.isValid

\* updateJsonText is called with a text that is not the newest entry while
\* the history is full
pushedOntoFull ==
  /\ UpdateJsonText \/ clearJson
  /\ Len(history) = MaxHistory
  /\ jsonText' # history[MaxHistory]

\* C28: the history never holds more than the cap, the index stays within
\* -1 <= historyIndex < Len(history), it is -1 only while the history is
\* empty, and a push onto a full history drops the oldest entry
C28_HistoryBounded ==
  /\ [](/\ Len(history) <= MaxHistory
        /\ -1 <= historyIndex
        /\ historyIndex < Len(history)
        /\ historyIndex = -1 => history = <<>>)
  /\ [][pushedOntoFull => history' = Append(Tail(history), jsonText')]_vars

\* the history is full, its entries differ and the index is on the newest
C28_Witness ==
  /\ Len(history) = MaxHistory
  /\ historyIndex = MaxHistory - 1
  /\ Cardinality({history[i] : i \in 1..Len(history)}) = MaxHistory
  /\ jsonText = history[MaxHistory]

\* C29: once updateJsonText has been called, jsonText is the history entry
\* at historyIndex
C29_JsonTextIsCurrentEntry ==
  history # <<>> => jsonText = history[historyIndex + 1]

\* ------------------------------------------------------------------------
\* Further properties of the tree operations (TreeSpec)
\* ------------------------------------------------------------------------
\* C30: for a query that is not empty, searchTree returns a node of type
\* object or array only if the node's key contains the query
C30_ContainerFoundByKeyOnly ==
  (treeOp.op = "searchTree" /\ treeOp.query # <<>>) =>
    \A i \in 1..Len(treeOp.returned) :
      treeOp.returned[i].type \in {"object", "array"} =>
        contains(treeOp.returned[i].key, treeOp.query, treeOp.caseSensitive)

\* ------------------------------------------------------------------------
\* Properties of the tree view (ViewSpec)
\* ------------------------------------------------------------------------
\* C27: toggling one node of the tree view changes the expanded state of that
\* node only: every other node has the same expanded state before and after
C27_ToggleNodeChangesOneNode ==
  treeOp.op = "toggleNode" =>
    \A k \in 1..forestSize(forest) :
      treeRows(forest, <<>>, treeOp.before, TRUE)[k].isExpanded
        = (treeRows(forest, <<>>, expandedNodes, TRUE)[k].isExpanded
             <=> k # treeOp.at)

====
